---- MODULE Spec2Model ----
(***************************************************************************)
(* Model of the ODT editor's conversion core (YOON-CC/ODT):                *)
(*   - the ODT serializer: buildContentXml with its StyleRegistry          *)
(*     (src/lib/odt/odtBuilder.ts) and the packager makeAndDownloadOdt     *)
(*     (src/lib/odt/zipOdt.ts);                                            *)
(*   - the HTML-to-ODT compiler convertHtmlToOdtDoc                        *)
(*     (lib/htmlToOdt/convertHtmlToOdtDoc, kept in src/unnamed/part_004);  *)
(*   - the CSS length and colour normalisers of the same file.             *)
(*                                                                         *)
(* Representation.  A JavaScript object is a record whose optional fields  *)
(* are absent from its DOMAIN when they are undefined.  A string the code  *)
(* only copies or compares is a TLA+ string; a string the code scans       *)
(* (span text, CSS values, length strings) is a sequence of one-character  *)
(* strings.  A JavaScript number is an exact fraction [n, d] (value n / d, *)
(* d > 0), an infinity or NaN; binary floating-point rounding error is not *)
(* modelled.  XML text is a sequence of element records: the empty string  *)
(* is the empty sequence and concatenation is \o.  A result that may be    *)
(* undefined is <<>> for undefined and <<v>> for the value v.              *)
(***************************************************************************)
EXTENDS Integers, Sequences, FiniteSets, TLC

VARIABLES
    pc,        \* position of the call under way (convertHtmlToOdtDoc, a normaliser, mergeAdjacentSpans)
    pending,   \* the makeAndDownloadOdt calls awaiting generateAsync, oldest first
    styles,    \* the StyleRegistry object of the most recent buildContentXml run
    exports,   \* observations of finished buildContentXml runs: the first and the latest
    saved,     \* the latest saveAs invocation
    html,      \* the parsed body handed to convertHtmlToOdtDoc
    odtDoc,    \* the OdtDoc convertHtmlToOdtDoc returned for html, the one the editor exports
    arg,       \* the argument a normaliser or mergeAdjacentSpans is called with
    result     \* what it returned

vars == <<pc, pending, styles, exports, saved, html, odtDoc, arg, result>>

----------------------------------------------------------------------------
(* Generic helpers.                                                        *)

Has(r, f) == f \in DOMAIN r

\* The empty object {}.
EmptyObj == [f \in {} |-> ""]

\* { [f]: v } when present, {} otherwise: an optional field.
Opt(present, f, v) == IF present THEN f :> v ELSE EmptyObj

\* JavaScript truthiness of an optional boolean / string field.
TruthyBool(r, f) == Has(r, f) /\ r[f] = TRUE
TruthyStr(r, f) == Has(r, f) /\ r[f] # ""

\* The same for a field held as a sequence of characters (a colour).
TruthyChars(r, f) == Has(r, f) /\ r[f] # <<>>

RECURSIVE Str(_)
\* The TLA+ string spelled by a sequence of one-character strings.
Str(cs) == IF cs = <<>> THEN "" ELSE Head(cs) \o Str(Tail(cs))

RECURSIVE Join(_, _)
\* Array.prototype.join on an array of strings.
Join(parts, sep) ==
    IF parts = <<>> THEN ""
    ELSE IF Len(parts) = 1 THEN parts[1]
    ELSE parts[1] \o sep \o Join(Tail(parts), sep)

RECURSIVE Concat(_)
\* join('') of an array of XML fragments.
Concat(frags) == IF frags = <<>> THEN <<>> ELSE Head(frags) \o Concat(Tail(frags))

Max(a, b) == IF a >= b THEN a ELSE b
Min(a, b) == IF a <= b THEN a ELSE b

RECURSIVE Pow10(_)
Pow10(k) == IF k = 0 THEN 1 ELSE 10 * Pow10(k - 1)

----------------------------------------------------------------------------
(* JavaScript numbers as exact decimal fractions.                          *)

NaN == [nan |-> TRUE]
Num(n, d) == [nan |-> FALSE, n |-> n, d |-> d]
\* Infinity (n = 1) and -Infinity (n = -1).
Inf(n) == [nan |-> FALSE, inf |-> TRUE, n |-> n, d |-> 1]
IsNaN(x) == x.nan
IsFinite(x) == ~x.nan /\ ~Has(x, "inf")

\* Round-half-up of the non-negative fraction a / b.
RoundDiv(a, b) == (2 * a + b) \div (2 * b)

DigitChars == <<"0", "1", "2", "3", "4", "5", "6", "7", "8", "9">>

RECURSIVE IntChars(_)
\* The decimal digits of n >= 0.
IntChars(n) == IF n < 10 THEN <<DigitChars[n + 1]>> ELSE Append(IntChars(n \div 10), DigitChars[(n % 10) + 1])

RECURSIVE PadLeft(_, _)
PadLeft(cs, width) == IF Len(cs) >= width THEN cs ELSE PadLeft(<<"0">> \o cs, width)

Abs(n) == IF n < 0 THEN 0 - n ELSE n

RECURSIVE Shifted(_, _, _)
\* [q, r] with a * 10^k = q * b + r and 0 <= r < b, for a >= 0, digit by
\* digit so that no intermediate value exceeds 10 * b.
Shifted(a, b, k) ==
    IF k = 0 THEN [q |-> a \div b, r |-> a % b]
    ELSE [q |-> Shifted(a, b, k - 1).q * 10 + (Shifted(a, b, k - 1).r * 10) \div b,
          r |-> (Shifted(a, b, k - 1).r * 10) % b]

\* a * 10^k / b rounded half up, for a >= 0.
RoundShifted(a, b, k) ==
    Shifted(a, b, k).q + (IF 2 * Shifted(a, b, k).r >= b THEN 1 ELSE 0)

\* Number.prototype.toFixed(digits) of the fraction a / b (b > 0), as
\* characters: the magnitude rounded half up, "-" in front of a negative value.
ToFixedChars(a, b, digits) ==
    (IF a < 0 THEN <<"-">> ELSE <<>>)
    \o IntChars(RoundShifted(Abs(a), b, digits) \div Pow10(digits))
    \o (IF digits = 0 THEN <<>>
        ELSE <<".">> \o PadLeft(IntChars(RoundShifted(Abs(a), b, digits) % Pow10(digits)), digits))

\* toFixed as a TLA+ string.
ToFixed(a, b, digits) == Str(ToFixedChars(a, b, digits))

IsDigit(c) == c \in {"0", "1", "2", "3", "4", "5", "6", "7", "8", "9"}
DigitVal(c) ==
    CASE c = "0" -> 0 [] c = "1" -> 1 [] c = "2" -> 2 [] c = "3" -> 3 [] c = "4" -> 4
      [] c = "5" -> 5 [] c = "6" -> 6 [] c = "7" -> 7 [] c = "8" -> 8 [] c = "9" -> 9

IsSpace(c) == c \in {" ", "\t", "\n"}

RECURSIVE TrimLeft(_)
TrimLeft(cs) == IF cs # <<>> /\ IsSpace(Head(cs)) THEN TrimLeft(Tail(cs)) ELSE cs

RECURSIVE TrimRight(_)
TrimRight(cs) ==
    IF cs # <<>> /\ IsSpace(cs[Len(cs)]) THEN TrimRight(SubSeq(cs, 1, Len(cs) - 1)) ELSE cs

\* String.prototype.trim.
Trim(cs) == TrimRight(TrimLeft(cs))

RECURSIVE DigitRun(_, _)
\* Length of the run of decimal digits of cs that starts at index i.
DigitRun(cs, i) == IF i <= Len(cs) /\ IsDigit(cs[i]) THEN 1 + DigitRun(cs, i + 1) ELSE 0

RECURSIVE DigitsValue(_, _, _)
\* Value of the k digits of cs that start at index i.
DigitsValue(cs, i, k) ==
    IF k = 0 THEN 0 ELSE DigitsValue(cs, i, k - 1) * 10 + DigitVal(cs[i + k - 1])

\* cs has the characters of lit from index i on.
StartsAt(cs, i, lit) ==
    i + Len(lit) - 1 <= Len(cs) /\ SubSeq(cs, i, i + Len(lit) - 1) = lit

\* parseFloat: leading white space, an optional sign, then "Infinity" or
\* digits with an optional fraction; the longest such prefix is the value, NaN
\* when there is none.  (Exponents are outside the modelled alphabet.)
\* The index of the first character after an optional sign.
AfterSign(cs) == IF cs # <<>> /\ cs[1] \in {"-", "+"} THEN 2 ELSE 1

\* The number of digits of the fraction after ni digits from index s: 0
\* without a "." there.
FractionRun(cs, s, ni) ==
    IF s + ni <= Len(cs) /\ cs[s + ni] = "." THEN DigitRun(cs, s + ni + 1) ELSE 0

\* mag / 10^nf with the sign, for a magnitude of ni + nf digits.
SignedNumber(neg, digits, mag, nf) ==
    IF digits = 0 THEN NaN ELSE Num(IF neg THEN 0 - mag ELSE mag, Pow10(nf))

FloatOf(cs, neg, s, ni, nf) ==
    IF StartsAt(cs, s, <<"I", "n", "f", "i", "n", "i", "t", "y">>)
    THEN Inf(IF neg THEN 0 - 1 ELSE 1)
    ELSE SignedNumber(neg, ni + nf,
             DigitsValue(cs, s, ni) * Pow10(nf) + DigitsValue(cs, s + ni + 1, nf), nf)

FloatDigits(cs, neg, s, ni) == FloatOf(cs, neg, s, ni, FractionRun(cs, s, ni))

FloatFrom(cs, s) == FloatDigits(cs, cs # <<>> /\ cs[1] = "-", s, DigitRun(cs, s))

FloatOfTrimmed(cs) == FloatFrom(cs, AfterSign(cs))

ParseFloat(str) == FloatOfTrimmed(TrimLeft(str))

IntDigits(cs, neg, s, ni) == SignedNumber(neg, ni, DigitsValue(cs, s, ni), 0)

IntFrom(cs, s) == IntDigits(cs, cs # <<>> /\ cs[1] = "-", s, DigitRun(cs, s))

IntOfTrimmed(cs) == IntFrom(cs, AfterSign(cs))

\* parseInt(str, 10): leading white space, an optional sign, digits.
ParseInt(str) == IntOfTrimmed(TrimLeft(str))

UpperCase == <<"A", "B", "C", "D", "E", "F", "G", "H", "I", "J", "K", "L", "M",
               "N", "O", "P", "Q", "R", "S", "T", "U", "V", "W", "X", "Y", "Z">>
LowerCase == <<"a", "b", "c", "d", "e", "f", "g", "h", "i", "j", "k", "l", "m",
               "n", "o", "p", "q", "r", "s", "t", "u", "v", "w", "x", "y", "z">>

LowerChar(c) ==
    IF \E k \in 1..Len(UpperCase) : UpperCase[k] = c
    THEN LowerCase[CHOOSE k \in 1..Len(UpperCase) : UpperCase[k] = c]
    ELSE c

\* String.prototype.toLowerCase
ToLowerCase(cs) == [i \in 1..Len(cs) |-> LowerChar(cs[i])]

\* String.prototype.endsWith
EndsWith(cs, lit) == Len(lit) <= Len(cs) /\ StartsAt(cs, Len(cs) - Len(lit) + 1, lit)

\* String.prototype.includes
Includes(cs, lit) == \E i \in 1..Len(cs) : StartsAt(cs, i, lit)

\* String.prototype.indexOf for one character, 1-based; 0 when it is absent.
IndexOf(cs, c) ==
    IF \E i \in 1..Len(cs) : cs[i] = c
    THEN CHOOSE i \in 1..Len(cs) : cs[i] = c /\ \A j \in 1..(i - 1) : cs[j] # c
    ELSE 0

\* slice(0, -k)
DropLast(cs, k) == SubSeq(cs, 1, Len(cs) - k)

RECURSIVE Split(_, _)
\* String.prototype.split on one character.
Split(cs, c) ==
    IF IndexOf(cs, c) = 0 THEN <<cs>>
    ELSE <<SubSeq(cs, 1, IndexOf(cs, c) - 1)>> \o Split(SubSeq(cs, IndexOf(cs, c) + 1, Len(cs)), c)

----------------------------------------------------------------------------
(* StyleRegistry (odtBuilder.ts).  A Map is the sequence of its entries in *)
(* insertion order, which is the order Map.values() iterates in.           *)

FONT_FAMILY_MAP == [body |-> "T_Body", serif |-> "T_Serif", gungsuh |-> "T_Gungsuh"]

\* new StyleRegistry()
NewStyleRegistry ==
    [spanStyles |-> <<>>, tableColumnStyles |-> <<>>, tableStyles |-> <<>>,
     paragraphStyles |-> <<>>, tableCellStyles |-> <<>>]

\* Map.get: the index of the entry with this key, 0 when there is none.
MapIndex(map, key) ==
    IF \E i \in 1..Len(map) : map[i].key = key
    THEN CHOOSE i \in 1..Len(map) : map[i].key = key
    ELSE 0

\* mergeSpanProps: the span's own fields win, the ODF attributes fill the gaps.
\* bold and italic are always defined afterwards; underline stays falsy (kept
\* absent) when neither the field nor the attribute is there.
mergeSpanProps(span) ==
    LET a == IF Has(span, "attributes") THEN span.attributes ELSE EmptyObj
        ul == "style:text-underline-style"
    IN Opt(Has(span, "fontFamily") \/ Has(a, "style:font-name"), "fontFamily",
           IF Has(span, "fontFamily") THEN span.fontFamily ELSE a["style:font-name"])
       @@ Opt(Has(span, "color") \/ Has(a, "fo:color"), "color",
              IF Has(span, "color") THEN span.color ELSE a["fo:color"])
       @@ Opt(Has(span, "fontSize") \/ Has(a, "fo:font-size"), "fontSize",
              IF Has(span, "fontSize") THEN span.fontSize ELSE a["fo:font-size"])
       @@ Opt(Has(span, "underline") \/ (Has(a, ul) /\ a[ul] # ""), "underline",
              IF Has(span, "underline") THEN span.underline ELSE a[ul] # "none")
       @@ [bold |-> IF Has(span, "bold") THEN span.bold
                    ELSE Has(a, "fo:font-weight") /\ a["fo:font-weight"] = "bold",
           italic |-> IF Has(span, "italic") THEN span.italic
                      ELSE Has(a, "fo:font-style") /\ a["fo:font-style"] = "italic"]
       @@ [f \in DOMAIN span \ {"bold", "italic", "underline", "fontSize", "color", "fontFamily"}
             |-> span[f]]

\* StyleRegistry.keyForSpan
keyForSpan(span) ==
    Join(<<IF TruthyStr(span, "fontFamily") THEN "ff:" \o span.fontFamily ELSE "ff:",
           IF TruthyBool(span, "bold") THEN "b1" ELSE "b0",
           IF TruthyBool(span, "italic") THEN "i1" ELSE "i0",
           IF TruthyBool(span, "underline") THEN "u1" ELSE "u0",
           IF TruthyChars(span, "color") THEN "c:" \o Str(span.color) ELSE "c:",
           IF TruthyStr(span, "fontSize") THEN "f:" \o span.fontSize ELSE "f:">>, "|")

\* getSpanStyle without the early return for a span without formatting.
getSpanStyleAlways(reg, span) ==
    IF TruthyStr(span, "fontFamily") THEN [reg |-> reg]
    ELSE IF MapIndex(reg.spanStyles, keyForSpan(span)) # 0
    THEN [reg |-> reg,
          name |-> reg.spanStyles[MapIndex(reg.spanStyles, keyForSpan(span))].name]
    ELSE [reg |-> [reg EXCEPT !.spanStyles =
                       Append(@, [key |-> keyForSpan(span),
                                  name |-> "T" \o ToString(Len(reg.spanStyles) + 1),
                                  span |-> span])],
          name |-> "T" \o ToString(Len(reg.spanStyles) + 1)]

\* getSpanStyle storing an entry on a hit as well, under the name found.
getSpanStyleStoredAgain(reg, span) ==
    LET hasFormatting ==
            \/ TruthyBool(span, "bold") \/ TruthyBool(span, "italic")
            \/ TruthyBool(span, "underline")
            \/ TruthyChars(span, "color") \/ TruthyStr(span, "fontSize")
        key == keyForSpan(span)
        at == MapIndex(reg.spanStyles, key)
        name == IF at # 0 THEN reg.spanStyles[at].name
                ELSE "T" \o ToString(Len(reg.spanStyles) + 1)
    IN IF TruthyStr(span, "fontFamily") THEN [reg |-> reg]
       ELSE IF ~hasFormatting THEN [reg |-> reg]
       ELSE [reg |-> [reg EXCEPT !.spanStyles =
                          Append(@, [key |-> key, name |-> name, span |-> span])],
             name |-> name]

\* StyleRegistry.getSpanStyle: [reg, name], name absent for undefined.
getSpanStyle(reg, span) ==
    LET hasFormatting ==
            \/ TruthyBool(span, "bold") \/ TruthyBool(span, "italic")
            \/ TruthyBool(span, "underline")
            \/ TruthyChars(span, "color") \/ TruthyStr(span, "fontSize")
        key == keyForSpan(span)
        at == MapIndex(reg.spanStyles, key)
        name == "T" \o ToString(Len(reg.spanStyles) + 1)
    IN IF TruthyStr(span, "fontFamily") THEN [reg |-> reg]
       ELSE IF ~hasFormatting THEN [reg |-> reg]
       ELSE IF at # 0 THEN [reg |-> reg, name |-> reg.spanStyles[at].name]
       ELSE [reg |-> [reg EXCEPT !.spanStyles =
                          Append(@, [key |-> key, name |-> name, span |-> span])],
             name |-> name]

ParagraphPropNames ==
    <<"align", "lineHeight", "marginTop", "marginBottom", "marginLeft", "marginRight",
      "textIndent">>

\* The props object getParagraphStyle fills, as its entries in insertion order
\* (JSON.stringify of it is the interning key).
ParagraphProps(p) ==
    LET keep(f) == IF f = "align" THEN TruthyStr(p, f) /\ p[f] # "start" ELSE TruthyStr(p, f)
    IN SelectSeq([i \in 1..Len(ParagraphPropNames) |->
                     IF keep(ParagraphPropNames[i])
                     THEN <<ParagraphPropNames[i], p[ParagraphPropNames[i]]>>
                     ELSE <<>>],
                 LAMBDA e : e # <<>>)

\* StyleRegistry.getParagraphStyle
getParagraphStyle(reg, p) ==
    LET props == ParagraphProps(p)
        at == MapIndex(reg.paragraphStyles, props)
        name == "PStyle" \o ToString(Len(reg.paragraphStyles) + 1)
    IN IF props = <<>> THEN [reg |-> reg]
       ELSE IF at # 0 THEN [reg |-> reg, name |-> reg.paragraphStyles[at].name]
       ELSE [reg |-> [reg EXCEPT !.paragraphStyles =
                          Append(@, [key |-> props, name |-> name, props |-> props])],
             name |-> name]

\* StyleRegistry.getTableColumnStyle; width is <<>> for undefined, else <<chars>>.
getTableColumnStyle(reg, width) ==
    LET w == IF width = <<>> THEN "" ELSE Str(Trim(width[1]))
        at == MapIndex(reg.tableColumnStyles, w)
        name == "TableColumnCustom" \o ToString(Len(reg.tableColumnStyles) + 1)
    IN IF w = "" THEN [reg |-> reg]
       ELSE IF at # 0 THEN [reg |-> reg, name |-> reg.tableColumnStyles[at].name]
       ELSE [reg |-> [reg EXCEPT !.tableColumnStyles = Append(@, [key |-> w, name |-> name])],
             name |-> name]

\* StyleRegistry.lengthStringToCm: /^([\d.]+)\s*cm$/i, then parseFloat of the
\* group; NaN stands for undefined.
lengthStringToCm(v) ==
    LET n == Len(v)
        isCm == n >= 2 /\ v[n - 1] \in {"c", "C"} /\ v[n] \in {"m", "M"}
        head == TrimRight(SubSeq(v, 1, n - 2))
        num == ParseFloat(head)
    IN IF v = <<>> \/ ~isCm \/ head = <<>> THEN NaN
       ELSE IF \E i \in 1..Len(head) : ~(IsDigit(head[i]) \/ head[i] = ".") THEN NaN
       ELSE IF IsFinite(num) /\ num.n > 0 THEN num ELSE NaN

RECURSIVE SumCm(_)
\* The reduce of computeAbsoluteWidth over the parsable widths.
SumCm(nums) ==
    IF nums = <<>> THEN Num(0, 1)
    ELSE LET h == Head(nums)
             t == SumCm(Tail(nums))
             d == Max(h.d, t.d)
         IN Num(h.n * (d \div h.d) + t.n * (d \div t.d), d)

\* StyleRegistry.computeAbsoluteWidth; widths is <<>> for undefined, else
\* <<array>>, each element <<>> or <<chars>>.  "" stands for undefined.
computeAbsoluteWidth(widths) ==
    LET ws == IF widths = <<>> THEN <<>> ELSE widths[1]
        parsed == [i \in 1..Len(ws) |-> IF ws[i] = <<>> THEN NaN ELSE lengthStringToCm(ws[i][1])]
        nums == SelectSeq(parsed, IsFinite)
        total == SumCm(nums)
    IN IF ws = <<>> \/ nums = <<>> THEN ""
       ELSE ToFixed(total.n, total.d, 4) \o "cm"

\* getTableStyle keeping the relative width beside an absolute one.
getTableStyleBothChannels(reg, t) ==
    LET absolute == IF Has(t, "widthCm") THEN Str(t.widthCm)
                    ELSE computeAbsoluteWidth(IF Has(t, "columnWidths") THEN <<t.columnWidths>> ELSE <<>>)
        pct == IF Has(t, "widthPct") /\ IsFinite(t.widthPct) /\ t.widthPct.n # 0
               THEN t.widthPct ELSE NaN
        rel == IF IsFinite(pct)
               THEN ToFixed(Max(pct.d, Min(pct.n, 1000 * pct.d)), pct.d, 2) \o "%" ELSE ""
        entry == IF absolute # ""
                 THEN [key |-> "abs:" \o absolute, widthAttr |-> absolute]
                      @@ Opt(rel # "", "relWidthAttr", rel)
                 ELSE IF IsFinite(pct) THEN [key |-> "rel:" \o rel, relWidthAttr |-> rel]
                 ELSE [key |-> "abs:17cm", widthAttr |-> "17cm"]
        at == MapIndex(reg.tableStyles, entry.key)
        name == "TableCustom" \o ToString(Len(reg.tableStyles) + 1)
    IN IF at # 0 THEN [reg |-> reg, name |-> reg.tableStyles[at].name]
       ELSE [reg |-> [reg EXCEPT !.tableStyles = Append(@, entry @@ [name |-> name])],
             name |-> name]

\* StyleRegistry.getTableStyle.  t carries the optional widthPct (a number),
\* widthCm (chars) and columnWidths.
getTableStyle(reg, t) ==
    LET explicit == IF Has(t, "widthCm") THEN Str(t.widthCm) ELSE ""
        absolute == IF Has(t, "widthCm") THEN explicit
                    ELSE computeAbsoluteWidth(IF Has(t, "columnWidths") THEN <<t.columnWidths>> ELSE <<>>)
        pct == IF Has(t, "widthPct") /\ IsFinite(t.widthPct) /\ t.widthPct.n # 0
               THEN t.widthPct ELSE NaN
        \* Math.max(1, Math.min(widthPct, 1000)), kept as a fraction over pct.d
        clampedN == IF IsFinite(pct) THEN Max(pct.d, Min(pct.n, 1000 * pct.d)) ELSE 0
        rel == IF IsFinite(pct) THEN ToFixed(clampedN, pct.d, 2) \o "%" ELSE ""
        entry == IF absolute # "" THEN [key |-> "abs:" \o absolute, widthAttr |-> absolute]
                 ELSE IF IsFinite(pct) THEN [key |-> "rel:" \o rel, relWidthAttr |-> rel]
                 ELSE [key |-> "abs:17cm", widthAttr |-> "17cm"]
        at == MapIndex(reg.tableStyles, entry.key)
        name == "TableCustom" \o ToString(Len(reg.tableStyles) + 1)
    IN IF at # 0 THEN [reg |-> reg, name |-> reg.tableStyles[at].name]
       ELSE [reg |-> [reg EXCEPT !.tableStyles = Append(@, entry @@ [name |-> name])],
             name |-> name]

\* getTableCellStyle numbering its names with a counter it shares with the
\* table styles.
getTableCellStyleShared(reg, cell) ==
    LET b == IF Has(cell, "backgroundColor") THEN Str(Trim(cell.backgroundColor)) ELSE ""
        at == MapIndex(reg.tableCellStyles, b)
        name == "TableCellCustom"
                \o ToString(Len(reg.tableCellStyles) + Len(reg.tableStyles) + 1)
    IN IF b = "" THEN [reg |-> reg]
       ELSE IF at # 0 THEN [reg |-> reg, name |-> reg.tableCellStyles[at].name]
       ELSE [reg |-> [reg EXCEPT !.tableCellStyles =
                          Append(@, [key |-> b, name |-> name, backgroundColor |-> b])],
             name |-> name]

\* StyleRegistry.getTableCellStyle
getTableCellStyle(reg, cell) ==
    LET b == IF Has(cell, "backgroundColor") THEN Str(Trim(cell.backgroundColor)) ELSE ""
        at == MapIndex(reg.tableCellStyles, b)
        name == "TableCellCustom" \o ToString(Len(reg.tableCellStyles) + 1)
    IN IF b = "" THEN [reg |-> reg]
       ELSE IF at # 0 THEN [reg |-> reg, name |-> reg.tableCellStyles[at].name]
       ELSE [reg |-> [reg EXCEPT !.tableCellStyles =
                          Append(@, [key |-> b, name |-> name, backgroundColor |-> b])],
             name |-> name]

----------------------------------------------------------------------------
(* The renderer (odtBuilder.ts).  Every render operator threads the        *)
(* registry through an accumulator [reg, xml, log]: xml is the string      *)
(* built so far and log records, per span rendered, the merged span and    *)
(* the style name it resolved to (name absent when it got none).           *)

NL == "\n"

\* TLC passes operator arguments unevaluated; Strict evaluates the accumulator
\* v before e, as the statements of the code run one after the other.
Strict(v, e) == IF v = v THEN e ELSE e

\* escapeXml, character by character (odtTemplates.ts).
escapeXml(cs) ==
    [i \in 1..Len(cs) |->
        CASE cs[i] = "&" -> "&amp;"
          [] cs[i] = "<" -> "&lt;"
          [] cs[i] = ">" -> "&gt;"
          [] cs[i] = "\"" -> "&quot;"
          [] cs[i] = "'" -> "&apos;"
          [] OTHER -> cs[i]]

RECURSIVE SplitNl(_, _, _)
\* text.split(/(\n)/): the segments between newlines, with each newline kept
\* as a token of its own; cur is the segment being read from index i on.
SplitNl(text, i, cur) ==
    IF i > Len(text) THEN <<cur>>
    ELSE IF text[i] = NL THEN <<cur, <<NL>>>> \o SplitNl(text, i + 1, <<>>)
    ELSE SplitNl(text, i + 1, Append(cur, text[i]))

StyleAttr(attr, r) == IF Has(r, "name") THEN <<<<attr, r.name>>>> ELSE <<>>

\* The tokens.forEach of renderParagraph with an empty token rendered as an
\* empty <text:span> instead of being skipped.
SpanFragmentsKeepEmpty(text, spanAttr) ==
    LET tokens == SplitNl(text, 1, <<>>)
        frag(token) ==
            IF token = <<NL>> THEN <<[tag |-> "text:line-break"]>>
            ELSE <<[tag |-> "text:span", attrs |-> spanAttr, text |-> escapeXml(token)]>>
    IN Concat([i \in 1..Len(tokens) |-> frag(tokens[i])])

\* The tokens.forEach of renderParagraph for one span.
SpanFragments(text, spanAttr) ==
    LET tokens == SplitNl(text, 1, <<>>)
        frag(token) ==
            IF token = <<NL>> THEN <<[tag |-> "text:line-break"]>>
            ELSE IF token = <<>> THEN <<>>
            ELSE <<[tag |-> "text:span", attrs |-> spanAttr, text |-> escapeXml(token)]>>
    IN Concat([i \in 1..Len(tokens) |-> frag(tokens[i])])

\* The style name renderParagraph resolves for a merged span: the preset of
\* its font-family role if it has one, else whatever getSpanStyle returns.
SpanStyleName(reg, merged) ==
    IF TruthyStr(merged, "fontFamily") /\ merged.fontFamily \in DOMAIN FONT_FAMILY_MAP
    THEN [reg |-> reg, name |-> FONT_FAMILY_MAP[merged.fontFamily]]
    ELSE getSpanStyle(reg, merged)

\* What one rendered piece r adds to the accumulator: its registry replaces
\* the accumulator's, its XML and its log are appended.
Then(acc, r) == [reg |-> r.reg, xml |-> acc.xml \o r.xml, log |-> acc.log \o r.log]

\* One span of the p.spans.forEach of renderParagraph: merged is
\* mergeSpanProps(s), r the style resolved for it.
RenderSpan(merged, r) ==
    [reg |-> r.reg,
     xml |-> SpanFragments(merged.text, StyleAttr("text:style-name", r)),
     log |-> <<[span |-> merged] @@ Opt(Has(r, "name"), "name", r.name)>>]

RECURSIVE RenderSpans(_, _)
\* The p.spans.forEach of renderParagraph.
RenderSpans(spans, acc) ==
    IF spans = <<>> THEN acc
    ELSE Strict(acc,
         RenderSpans(Tail(spans),
             Then(acc, RenderSpan(mergeSpanProps(Head(spans)),
                                  SpanStyleName(acc.reg, mergeSpanProps(Head(spans)))))))

\* The <text:p> element of renderParagraph: ps is the paragraph style, r the
\* rendered spans.
ParagraphElement(p, ps, r) ==
    IF Len(p.spans) = 0
    THEN [reg |-> ps.reg, log |-> <<>>,
          xml |-> <<[tag |-> "text:p", attrs |-> StyleAttr("text:style-name", ps),
                     selfClosing |-> TRUE]>>]
    ELSE [reg |-> r.reg, log |-> r.log,
          xml |-> <<[tag |-> "text:p", attrs |-> StyleAttr("text:style-name", ps),
                     selfClosing |-> FALSE, children |-> r.xml]>>]

ParagraphSpans(p, ps) ==
    ParagraphElement(p, ps, RenderSpans(p.spans, [reg |-> ps.reg, xml |-> <<>>, log |-> <<>>]))

\* renderParagraph
renderParagraph(p, reg) == ParagraphSpans(p, getParagraphStyle(reg, p))

RECURSIVE RenderParagraphs(_, _)
\* c.paragraphs.map(p => renderParagraph(p, styles)).join('')
RenderParagraphs(ps, acc) ==
    IF ps = <<>> THEN acc
    ELSE Strict(acc, RenderParagraphs(Tail(ps), Then(acc, renderParagraph(Head(ps), acc.reg))))

\* Math.max(...t.rows.map(r => r.cells.length)), 0 for a table without rows.
colsCount(t) ==
    IF Len(t.rows) = 0 THEN 0
    ELSE CHOOSE m \in {Len(t.rows[i].cells) : i \in 1..Len(t.rows)} :
             \A i \in 1..Len(t.rows) : Len(t.rows[i].cells) <= m

\* One <table:table-column> of renderTable: r is the column style resolved.
ColumnElement(r) ==
    [reg |-> r.reg,
     xml |-> <<[tag |-> "table:table-column",
                attrs |-> <<<<"table:style-name",
                              IF Has(r, "name") THEN r.name ELSE "TableColumn">>>>]>>,
     log |-> <<>>]

RECURSIVE RenderColumns(_, _, _, _)
\* Array.from({ length: colsCount }).map((_, index) => ...) of renderTable.
RenderColumns(t, index, count, acc) ==
    IF index > count THEN acc
    ELSE Strict(acc,
         RenderColumns(t, index + 1, count,
             Then(acc, ColumnElement(getTableColumnStyle(acc.reg,
                 IF Has(t, "columnWidths") /\ index <= Len(t.columnWidths)
                 THEN t.columnWidths[index] ELSE <<>>)))))

\* The <table:table-cell> element: ps is the rendered paragraphs, cs the
\* cell style resolved after them.
CellElement(c, ps, cs) ==
    [reg |-> cs.reg, log |-> ps.log,
     xml |-> <<[tag |-> "table:table-cell",
                attrs |-> <<<<"table:style-name",
                              IF Has(cs, "name") THEN cs.name ELSE "TableCell">>>>
                          \o (IF Has(c, "colSpan") /\ c.colSpan # 0
                              THEN <<<<"table:number-columns-spanned", ToString(c.colSpan)>>>>
                              ELSE <<>>)
                          \o (IF Has(c, "rowSpan") /\ c.rowSpan # 0
                              THEN <<<<"table:number-rows-spanned", ToString(c.rowSpan)>>>>
                              ELSE <<>>),
                children |-> IF ps.xml = <<>>
                             THEN <<[tag |-> "text:p", attrs |-> <<>>, selfClosing |-> TRUE]>>
                             ELSE ps.xml]>>]

CellStyled(c, ps) == CellElement(c, ps, getTableCellStyle(ps.reg, c))

\* One cell of renderTable.
RenderCell(c, reg) ==
    CellStyled(c, RenderParagraphs(c.paragraphs, [reg |-> reg, xml |-> <<>>, log |-> <<>>]))

RECURSIVE RenderCells(_, _)
RenderCells(cells, acc) ==
    IF cells = <<>> THEN acc
    ELSE Strict(acc, RenderCells(Tail(cells), Then(acc, RenderCell(Head(cells), acc.reg))))

\* The <table:table-row> element around the rendered cells r.
RowElement(r) ==
    [reg |-> r.reg, log |-> r.log,
     xml |-> <<[tag |-> "table:table-row",
                attrs |-> <<<<"table:style-name", "TableRow">>>>,
                children |-> r.xml]>>]

RECURSIVE RenderRows(_, _)
RenderRows(rows, acc) ==
    IF rows = <<>> THEN acc
    ELSE Strict(acc,
         RenderRows(Tail(rows),
             Then(acc, RowElement(RenderCells(Head(rows).cells,
                                      [reg |-> acc.reg, xml |-> <<>>, log |-> <<>>])))))

\* The <table:table> element: ts is the table style, cols the rendered
\* columns, rows the rendered rows.
TableElement(ts, cols, rows) ==
    [reg |-> rows.reg, log |-> rows.log,
     xml |-> <<[tag |-> "table:table",
                attrs |-> <<<<"table:style-name", ts.name>>>>,
                children |-> cols.xml \o rows.xml]>>]

TableRows(t, ts, cols) ==
    TableElement(ts, cols, RenderRows(t.rows, [reg |-> cols.reg, xml |-> <<>>, log |-> <<>>]))

TableColumns(t, ts) ==
    TableRows(t, ts, RenderColumns(t, 1, colsCount(t), [reg |-> ts.reg, xml |-> <<>>, log |-> <<>>]))

\* renderTable: the table style first, then the columns, then the rows.
renderTable(t, reg) == TableColumns(t, getTableStyle(reg, t))

\* renderBlock: '' for a block that is neither a paragraph nor a table.
renderBlock(b, reg) ==
    IF b.type = "paragraph" THEN renderParagraph(b.value, reg)
    ELSE IF b.type = "table" THEN renderTable(b.value, reg)
    ELSE [reg |-> reg, log |-> <<>>, xml |-> <<>>]

\* One element of doc.body.map(...): the rendered string r of a block, kept
\* as an element of its own.
BlockThen(acc, r) == [reg |-> r.reg, xml |-> Append(acc.xml, r.xml), log |-> acc.log \o r.log]

RECURSIVE RenderBlocks(_, _)
\* doc.body.map(block => renderBlock(block, styles)): the array of rendered
\* strings, which buildContentXml joins with '\n'.
RenderBlocks(body, acc) ==
    IF body = <<>> THEN acc
    ELSE Strict(acc, RenderBlocks(Tail(body), BlockThen(acc, renderBlock(Head(body), acc.reg))))

\* A <style:style> declaration.
StyleDecl(name, family, props) == [name |-> name, family |-> family, props |-> props]

\* The fixed `base` block of renderAutomaticStyles.
BaseStyles ==
    <<StyleDecl("P", "paragraph",
          <<"fo:margin-top=0cm", "fo:margin-bottom=0.42cm", "fo:line-height=160%",
            "style:font-name=BodyFont", "fo:font-size=12pt">>),
      StyleDecl("T", "text", <<"style:font-name=BodyFont", "fo:font-size=12pt">>),
      StyleDecl("Table", "table", <<"table:align=left", "table:border-model=collapsing">>),
      StyleDecl("TableColumn", "table-column", <<>>),
      StyleDecl("TableRow", "table-row", <<>>),
      StyleDecl("TableCell", "table-cell",
          <<"fo:border=0.75pt solid #c5ccd6", "fo:padding=0.20cm">>)>>

ParagraphAttrName(f) ==
    CASE f = "align" -> "fo:text-align"
      [] f = "lineHeight" -> "fo:line-height"
      [] f = "marginTop" -> "fo:margin-top"
      [] f = "marginBottom" -> "fo:margin-bottom"
      [] f = "marginLeft" -> "fo:margin-left"
      [] f = "marginRight" -> "fo:margin-right"
      [] f = "textIndent" -> "fo:text-indent"

\* StyleRegistry.renderAutomaticStyles: base, then the table, column, cell,
\* paragraph and span styles, each family in insertion order.
renderAutomaticStyles(reg) ==
    LET table == [i \in 1..Len(reg.tableStyles) |->
                    LET s == reg.tableStyles[i]
                    IN StyleDecl(s.name, "table",
                           <<"table:align=left", "table:border-model=collapsing">>
                           \o (IF Has(s, "widthAttr") THEN <<"style:width=" \o s.widthAttr>> ELSE <<>>)
                           \o (IF Has(s, "relWidthAttr")
                               THEN <<"style:rel-width=" \o s.relWidthAttr>> ELSE <<>>))]
        col == [i \in 1..Len(reg.tableColumnStyles) |->
                  StyleDecl(reg.tableColumnStyles[i].name, "table-column",
                      <<"style:column-width=" \o reg.tableColumnStyles[i].key>>)]
        cell == [i \in 1..Len(reg.tableCellStyles) |->
                   StyleDecl(reg.tableCellStyles[i].name, "table-cell",
                       <<"fo:border=0.75pt solid #c5ccd6", "fo:padding=0.20cm",
                         "fo:background-color=" \o reg.tableCellStyles[i].backgroundColor>>)]
        para == [i \in 1..Len(reg.paragraphStyles) |->
                   LET props == reg.paragraphStyles[i].props
                   IN StyleDecl(reg.paragraphStyles[i].name, "paragraph",
                          [k \in 1..Len(props) |->
                              ParagraphAttrName(props[k][1]) \o "=" \o props[k][2]])]
        span == [i \in 1..Len(reg.spanStyles) |->
                   LET sp == reg.spanStyles[i].span
                   IN StyleDecl(reg.spanStyles[i].name, "text",
                          <<"style:font-name=BodyFont">>
                          \o (IF TruthyBool(sp, "bold") THEN <<"fo:font-weight=bold">> ELSE <<>>)
                          \o (IF TruthyBool(sp, "italic") THEN <<"fo:font-style=italic">> ELSE <<>>)
                          \o (IF TruthyBool(sp, "underline")
                              THEN <<"style:text-underline-style=solid",
                                     "style:text-underline-type=single">> ELSE <<>>)
                          \o (IF TruthyChars(sp, "color") THEN <<"fo:color=" \o Str(sp.color)>> ELSE <<>>)
                          \o (IF TruthyStr(sp, "fontSize")
                              THEN <<"fo:font-size=" \o sp.fontSize>> ELSE <<>>))]
    IN BaseStyles \o table \o col \o cell \o para \o span

\* odfDocumentContent (odtTemplates.ts): the fixed font faces and page layout,
\* the preset T_Gungsuh text style, the automatic styles, the body.
odfDocumentContent(contentInnerXml, automaticStylesInner) ==
    [fontFaceDecls |-> <<"BodyFont", "EmojiFont", "GungsuhFont">>,
     pageLayout |-> "PageLayout",
     automaticStyles |->
        <<StyleDecl("T_Gungsuh", "text", <<"style:font-name=GungsuhFont">>)>>
        \o automaticStylesInner,
     body |-> contentInnerXml]

\* buildContentXml: a fresh registry, the blocks in body order, then the
\* document around them.  reg and log are kept beside the XML for observation.
ContentOf(r) ==
    [xml |-> odfDocumentContent(r.xml, renderAutomaticStyles(r.reg)),
     reg |-> r.reg, log |-> r.log]

\* buildContentXml with one registry kept across the builds instead of a
\* fresh one per build.
buildContentXmlSharedRegistry(doc) ==
    ContentOf(RenderBlocks(doc.body, [reg |-> styles, xml |-> <<>>, log |-> <<>>]))

buildContentXml(doc) ==
    ContentOf(RenderBlocks(doc.body, [reg |-> NewStyleRegistry, xml |-> <<>>, log |-> <<>>]))

----------------------------------------------------------------------------
(* The packager (zipOdt.ts).  A JSZip object is the sequence of its        *)
(* entries in the order they were added.                                   *)

MIMETYPE == "application/vnd.oasis.opendocument.text"

\* new JSZip()
NewZip == <<>>

\* zip.file(name, data, options): adds the entry, or replaces the entry of
\* that name.  options is {} or { compression }.
ZipFile(zip, name, data, options) ==
    LET entry == [name |-> name, data |-> data, dir |-> FALSE] @@ options
    IN IF \E i \in 1..Len(zip) : zip[i].name = name
       THEN [i \in 1..Len(zip) |-> IF zip[i].name = name THEN entry ELSE zip[i]]
       ELSE Append(zip, entry)

\* zip.folder(name): creates the directory entry unless it exists; files added
\* through the returned handle are named name/<file>.
ZipFolder(zip, name) ==
    IF \E i \in 1..Len(zip) : zip[i].name = name \o "/" THEN zip
    ELSE Append(zip, [name |-> name \o "/", data |-> "", dir |-> TRUE])

\* zip.generateAsync(options): every entry is written in order with its own
\* compression if it has one, else with the compression of the options.
GenerateBlob(zip, options) ==
    [i \in 1..Len(zip) |->
        [name |-> zip[i].name, data |-> zip[i].data, dir |-> zip[i].dir,
         compression |-> IF Has(zip[i], "compression") THEN zip[i].compression
                         ELSE options.compression]]

\* odfMetaXml(title, creator); the creation date it stamps is not modelled.
odfMetaXml(meta) ==
    (IF TruthyStr(meta, "title") THEN <<"dc:title=" \o meta.title>> ELSE <<>>)
    \o (IF TruthyStr(meta, "creator") THEN <<"dc:creator=" \o meta.creator>> ELSE <<>>)

\* ZipEntries with the mimetype entry added like the other entries, without
\* its { compression: 'STORE' } option.
ZipEntriesNoStore(doc, contentXml) ==
    LET z1 == ZipFile(NewZip, "mimetype", MIMETYPE, EmptyObj)
        z2 == ZipFile(z1, "content.xml", contentXml, EmptyObj)
        z3 == ZipFile(z2, "styles.xml", "odfStylesXml", EmptyObj)
        z4 == ZipFile(z3, "meta.xml", odfMetaXml(doc.meta), EmptyObj)
        z5 == ZipFile(z4, "settings.xml", "odfSettingsXml", EmptyObj)
        z6 == ZipFolder(z5, "META-INF")
    IN ZipFile(z6, "META-INF/manifest.xml", "odfManifestXml", EmptyObj)

\* The synchronous part of makeAndDownloadOdt, up to the await: the mimetype
\* entry, the five XML parts, and the entries they are added as.
ZipEntries(doc, contentXml) ==
    LET z1 == ZipFile(NewZip, "mimetype", MIMETYPE, [compression |-> "STORE"])
        z2 == ZipFile(z1, "content.xml", contentXml, EmptyObj)
        z3 == ZipFile(z2, "styles.xml", "odfStylesXml", EmptyObj)
        z4 == ZipFile(z3, "meta.xml", odfMetaXml(doc.meta), EmptyObj)
        z5 == ZipFile(z4, "settings.xml", "odfSettingsXml", EmptyObj)
        z6 == ZipFolder(z5, "META-INF")
    IN ZipFile(z6, "META-INF/manifest.xml", "odfManifestXml", EmptyObj)

----------------------------------------------------------------------------
(* Documents.                                                              *)

MaxBlocks == 2

sPlain == [text |-> <<"a">>]
sBold == [text |-> <<"b">>, bold |-> TRUE]
sBoldNotItalic == [text |-> <<"c">>, bold |-> TRUE, italic |-> FALSE]
sRed == [text |-> <<"d">>, color |-> <<"#", "f", "f", "0", "0", "0", "0">>]
sBigUnderlined == [text |-> <<"e">>, fontSize |-> "18pt", underline |-> TRUE]
sSerif == [text |-> <<"f">>, fontFamily |-> "serif"]
sSerifBold == [text |-> <<"g">>, fontFamily |-> "serif", bold |-> TRUE]
sGungsuh == [text |-> <<"h">>, fontFamily |-> "gungsuh"]
sBreaks == [text |-> <<"i", NL, NL, "<", "&">>]
sAttrBold == [text |-> <<"j">>, attributes |-> ("fo:font-weight" :> "bold")]

pEmpty == [spans |-> <<>>]
pEmptyCentered == [spans |-> <<>>, align |-> "center"]
pMixed == [spans |-> <<sPlain, sBold, sBoldNotItalic, sRed>>]
pSerif == [spans |-> <<sSerif, sSerifBold, sBold>>, align |-> "start"]
pBreaks == [spans |-> <<sBreaks, sBigUnderlined, sGungsuh>>, marginTop |-> "0.5000cm"]
pAttr == [spans |-> <<sAttrBold, sRed>>, align |-> "center"]

cPlain == [paragraphs |-> <<[spans |-> <<sBold>>]>>]
cBare == [paragraphs |-> <<>>]
cWide == [paragraphs |-> <<pEmpty>>, colSpan |-> 2, backgroundColor |-> <<"#", "e", "e", "e", "e", "e", "e">>]
cTall == [paragraphs |-> <<[spans |-> <<sRed>>]>>, rowSpan |-> 2]

tEmpty == [rows |-> <<>>]
tPlain == [rows |-> <<[cells |-> <<cPlain, cBare>>]>>, widthPct |-> Num(50, 1)]
tSpanned ==
    [rows |-> <<[cells |-> <<cWide, cTall>>], [cells |-> <<cPlain, cPlain>>]>>,
     columnWidths |-> <<<<<<"2", ".", "5", "c", "m">>>>, <<>>, <<<<"4", "c", "m">>>>>>]
tRagged ==
    [rows |-> <<[cells |-> <<cPlain>>], [cells |-> <<cBare, cPlain, cPlain>>]>>,
     widthCm |-> <<"1", "2", ".", "0", "0", "0", "0", "c", "m">>]

Paragraphs == {pEmpty, pEmptyCentered, pMixed, pSerif, pBreaks, pAttr}
Tables == {tEmpty, tPlain, tSpanned, tRagged}

\* The blocks a body is made of: the two OdtBlock variants of types.ts, and
\* the pageBreak block collectBlocks pushes for a page-break marker element.
BlockPool ==
    {[type |-> "paragraph", value |-> p] : p \in Paragraphs}
    \cup {[type |-> "table", value |-> t] : t \in Tables}
    \cup {[type |-> "pageBreak"]}

DocMeta == [title |-> "notice", creator |-> "ODT Demo"]

Bodies == UNION {[1..n -> BlockPool] : n \in 0..MaxBlocks}

Docs == {[meta |-> DocMeta, styles |-> [bodyFont |-> "Malgun Gothic"], body |-> b] : b \in Bodies}

MkDoc(body) == [meta |-> DocMeta, styles |-> [bodyFont |-> "Malgun Gothic"], body |-> body]

\* The document exported between two exports of the document under
\* observation.
OtherDoc ==
    MkDoc(<<[type |-> "table", value |-> tSpanned], [type |-> "paragraph", value |-> pBreaks],
            [type |-> "paragraph", value |-> pAttr]>>)

----------------------------------------------------------------------------
(* The export path as a state machine.  The page holds odtDoc.  A call of  *)
(* makeAndDownloadOdt runs synchronously up to its await (buildContentXml  *)
(* has no await inside), and stays pending until the archive generation    *)
(* resolves (saveAs runs) or rejects; another call may start meanwhile.    *)
(* exports observes the builds: the first one and the latest one, each     *)
(* with the document built just before it.                                 *)

MaxPending == 2

NoDoc == [none |-> TRUE]

Init ==
    /\ odtDoc \in Docs
    /\ pending = <<>>
    /\ styles = NewStyleRegistry
    /\ exports = <<>>
    /\ saved = <<>>
    /\ pc = "idle"
    /\ html = <<>>
    /\ arg = <<>>
    /\ result = <<>>

Observe(doc, built) ==
    [doc |-> doc, xml |-> built.xml,
     after |-> IF exports = <<>> THEN NoDoc ELSE exports[Len(exports)].doc]

\* makeAndDownloadOdt(doc, filename) up to `await zip.generateAsync(...)`.
Download(doc, filename, built) ==
    /\ pending' = Append(pending, [doc |-> doc, filename |-> filename, log |-> built.log,
                                   zip |-> ZipEntries(doc, built.xml)])
    /\ styles' = built.reg
    /\ exports' = IF exports = <<>> THEN <<Observe(doc, built)>>
                  ELSE <<exports[1], Observe(doc, built)>>

MakeAndDownloadOdt(doc, filename) ==
    /\ Len(pending) < MaxPending
    /\ Download(doc, filename, buildContentXml(doc))
    /\ UNCHANGED <<saved, odtDoc, pc, html, arg, result>>

Without(seq, i) == SubSeq(seq, 1, i - 1) \o SubSeq(seq, i + 1, Len(seq))

\* The generateAsync promise of pending call i resolves: saveAs(blob, filename)
\* runs.  saved holds the archive saved last.
GenerateResolved(i) ==
    /\ saved' = <<[blob |-> GenerateBlob(pending[i].zip, [compression |-> "DEFLATE"]),
                   filename |-> pending[i].filename]>>
    /\ pending' = Without(pending, i)
    /\ UNCHANGED <<styles, exports, odtDoc, pc, html, arg, result>>

\* The generateAsync promise of pending call i rejects: the call throws,
\* nothing is saved.
GenerateRejected(i) ==
    /\ pending' = Without(pending, i)
    /\ UNCHANGED <<styles, exports, saved, odtDoc, pc, html, arg, result>>

Next ==
    \/ \E d \in {odtDoc, OtherDoc} : MakeAndDownloadOdt(d, "document.odt")
    \/ \E i \in 1..Len(pending) : GenerateResolved(i)
    \/ \E i \in 1..Len(pending) : GenerateRejected(i)

Spec == Init /\ [][Next]_vars

----------------------------------------------------------------------------
(* Properties of the export path.                                          *)

\* The formatting combination of a rendered span: the five tracked
\* properties, each as keyForSpan reads it.
Combination(span) ==
    [bold |-> TruthyBool(span, "bold"), italic |-> TruthyBool(span, "italic"),
     underline |-> TruthyBool(span, "underline"),
     color |-> IF TruthyChars(span, "color") THEN span.color ELSE <<>>,
     fontSize |-> IF TruthyStr(span, "fontSize") THEN span.fontSize ELSE ""]

\* The text style name a rendered span received, "" when it received none.
StyleNameOf(entry) == IF Has(entry, "name") THEN entry.name ELSE ""

\* C1: within one buildContentXml run, two rendered spans receive the same
\* text style name exactly when they have the same combination of bold,
\* italic, underline, color and fontSize, spans with a fontFamily role
\* included.
C1_SpanStyleNames ==
    \A c \in 1..Len(pending) :
        \A i, j \in 1..Len(pending[c].log) :
            (Combination(pending[c].log[i].span) = Combination(pending[c].log[j].span))
            <=> (StyleNameOf(pending[c].log[i]) = StyleNameOf(pending[c].log[j]))

\* C1 without the spans that carry a fontFamily role: the part of the claim
\* the registry does keep.
C1_SpanStyleNamesNoFamily ==
    \A c \in 1..Len(pending) :
        \A i, j \in 1..Len(pending[c].log) :
            (~TruthyStr(pending[c].log[i].span, "fontFamily")
             /\ ~TruthyStr(pending[c].log[j].span, "fontFamily"))
            => ((Combination(pending[c].log[i].span) = Combination(pending[c].log[j].span))
                <=> (StyleNameOf(pending[c].log[i]) = StyleNameOf(pending[c].log[j])))

ColumnElements(table) ==
    Len(SelectSeq(table.children, LAMBDA e : e.tag = "table:table-column"))

RECURSIVE RowSpanSum(_)
\* The sum of the colSpan of the cells of a row, 1 for a cell without one.
RowSpanSum(cells) ==
    IF cells = <<>> THEN 0
    ELSE (IF Has(Head(cells), "colSpan") THEN Head(cells).colSpan ELSE 1)
         + RowSpanSum(Tail(cells))

\* The widest row of a table model, 0 for a table without rows.
WidestRow(t) ==
    IF t.rows = <<>> THEN 0
    ELSE CHOOSE m \in {RowSpanSum(t.rows[r].cells) : r \in 1..Len(t.rows)} :
             \A r \in 1..Len(t.rows) : RowSpanSum(t.rows[r].cells) <= m

\* C3: every rendered table has as many <table:table-column> elements as
\* its widest row has columns, counting each cell with its colSpan.
C3_ColumnCount ==
    \A i \in 1..Len(exports) :
        \A k \in 1..Len(exports[i].doc.body) :
            exports[i].doc.body[k].type = "table"
            => ColumnElements(exports[i].xml.body[k][1]) = WidestRow(exports[i].doc.body[k].value)

\* The entries of an archive that are files, in archive order.
FileEntries(blob) == SelectSeq(blob, LAMBDA e : ~e.dir)

C7_OneElementPerBlock ==
    \A i \in 1..Len(exports) :
        /\ Len(exports[i].xml.body) = Len(exports[i].doc.body)
        /\ \A k \in 1..Len(exports[i].doc.body) :
               /\ Len(exports[i].xml.body[k]) = 1
               /\ (exports[i].doc.body[k].type = "paragraph"
                   /\ exports[i].doc.body[k].value.spans = <<>>)
                  => (/\ exports[i].xml.body[k][1].tag = "text:p"
                      /\ exports[i].xml.body[k][1].selfClosing
                      /\ ~Has(exports[i].xml.body[k][1], "children"))

----------------------------------------------------------------------------
(* The CSS value normalisers of convertHtmlToOdtDoc.                       *)

Undefined == <<>>
Some(v) == <<v>>

CM == <<"c", "m">>

\* pxToCm.  cm = value / 96 * 2.54 = value * 127 / 4800; with exact fractions
\* it is positive whenever value is, so the second guard of the code never
\* fires.
pxToCm(value) ==
    IF ~IsFinite(value) \/ value.n <= 0 THEN Undefined
    ELSE Some(ToFixedChars(value.n * 127, value.d * 4800, 4) \o CM)

\* One unit branch of cssLengthToCm: numeric * mul / div centimetres (2.54 is
\* 127 / 50, and 2.54 / 72 is 127 / 3600).
UnitToCm(numeric, mul, div) ==
    IF ~IsFinite(numeric) \/ numeric.n <= 0 THEN Undefined
    ELSE Some(ToFixedChars(numeric.n * mul, numeric.d * div, 4) \o CM)

\* The branches of cssLengthToCm on the trimmed, lower-cased value.
LengthToCm(trimmed, numeric) ==
    IF trimmed = <<>> THEN Undefined
    ELSE IF EndsWith(trimmed, CM) THEN UnitToCm(numeric, 1, 1)
    ELSE IF EndsWith(trimmed, <<"m", "m">>) THEN UnitToCm(numeric, 1, 10)
    ELSE IF EndsWith(trimmed, <<"i", "n">>) THEN UnitToCm(numeric, 127, 50)
    ELSE IF EndsWith(trimmed, <<"p", "t">>) THEN UnitToCm(numeric, 127, 3600)
    ELSE IF EndsWith(trimmed, <<"p", "x">>)
         THEN (IF ~IsFinite(numeric) \/ numeric.n <= 0 THEN Undefined ELSE pxToCm(numeric))
    ELSE IF ~IsNaN(ParseFloat(trimmed)) /\ ParseFloat(trimmed).n > 0
         THEN pxToCm(ParseFloat(trimmed))
    ELSE Undefined

\* cssLengthToCm
cssLengthToCm(value) ==
    LengthToCm(ToLowerCase(Trim(value)), ParseFloat(DropLast(ToLowerCase(Trim(value)), 2)))

\* Number(value.toFixed(2)) printed as the code prints it: toFixed(0) for an
\* integer, toString() otherwise (at most two decimals, no trailing zero).
TwoDecimals(a, b) ==
    LET scaled == RoundShifted(Abs(a), b, 2)
    IN (IF a < 0 /\ scaled # 0 THEN <<"-">> ELSE <<>>)
       \o IntChars(scaled \div 100)
       \o (IF scaled % 100 = 0 THEN <<>>
           ELSE IF scaled % 10 = 0 THEN <<".">> \o IntChars((scaled % 100) \div 10)
           ELSE <<".">> \o PadLeft(IntChars(scaled % 100), 2))

\* formatPt, as a TLA+ string (fontSize and lineHeight are only copied on).
formatPt(value) ==
    IF ~IsFinite(value)
    THEN (IF value.n < 0 THEN "-Infinitypt" ELSE "Infinitypt")
    ELSE Str(TwoDecimals(value.n, value.d)) \o "pt"

\* formatPercent: the value clamped to [0, 1000].
formatPercent(value) ==
    IF ~IsFinite(value) THEN (IF value.n < 0 THEN "0%" ELSE "1000%")
    ELSE IF value.n <= 0 THEN "0%"
    ELSE IF value.n >= 1000 * value.d THEN "1000%"
    ELSE Str(TwoDecimals(value.n, value.d)) \o "%"

\* value * mul / div for a finite value; an infinity keeps its sign.
Scale(value, mul, div) ==
    IF IsFinite(value) THEN Num(value.n * mul, value.d * div) ELSE value

\* cssFontSizeToPt
cssFontSizeToPt(value) ==
    LET trimmed == ToLowerCase(Trim(value))
        cut == ParseFloat(DropLast(trimmed, 2))
        whole == ParseFloat(trimmed)
    IN IF trimmed = <<>> THEN Undefined
       ELSE IF EndsWith(trimmed, <<"p", "x">>)
            THEN (IF IsNaN(cut) THEN Undefined ELSE Some(formatPt(Scale(cut, 3, 4))))
       ELSE IF EndsWith(trimmed, <<"p", "t">>)
            THEN (IF IsNaN(cut) THEN Undefined ELSE Some(formatPt(cut)))
       ELSE IF IsNaN(whole) THEN Undefined ELSE Some(formatPt(Scale(whole, 3, 4)))

\* x > 0 for a number that is not NaN.
Above0(x) == ~IsNaN(x) /\ x.n > 0

\* normalizeLineHeight
normalizeLineHeight(value) ==
    LET trimmed == Trim(value)
        lowered == ToLowerCase(trimmed)
        cut1 == ParseFloat(DropLast(lowered, 1))
        cut2 == ParseFloat(DropLast(lowered, 2))
    IN IF trimmed = <<>> THEN Undefined
       ELSE IF Str(lowered) \in {"normal", "inherit", "initial"} THEN Undefined
       ELSE IF EndsWith(lowered, <<"%">>)
            THEN (IF Above0(cut1) THEN Some(formatPercent(cut1)) ELSE Undefined)
       ELSE IF EndsWith(lowered, <<"p", "x">>)
            THEN (IF Above0(cut2) THEN Some(formatPt(Scale(cut2, 3, 4))) ELSE Undefined)
       ELSE IF EndsWith(lowered, <<"p", "t">>)
            THEN (IF Above0(cut2) THEN Some(formatPt(cut2)) ELSE Undefined)
       ELSE IF EndsWith(lowered, <<"e", "m">>)
            THEN (IF Above0(cut2) THEN Some(formatPercent(Scale(cut2, 100, 1))) ELSE Undefined)
       ELSE IF cssLengthToCm(trimmed) # Undefined THEN Some(Str(cssLengthToCm(trimmed)[1]))
       ELSE IF (\A i \in 1..Len(lowered) : IsDigit(lowered[i]) \/ lowered[i] = ".")
               /\ Above0(ParseFloat(lowered))
            THEN Some(formatPercent(Scale(ParseFloat(lowered), 100, 1)))
       ELSE Undefined

HexChars == <<"0", "1", "2", "3", "4", "5", "6", "7", "8", "9", "a", "b", "c", "d", "e", "f">>

IsHexDigit(c) == \E k \in 1..Len(HexChars) : HexChars[k] = LowerChar(c)

\* toHex of normalizeColor: the component clamped to [0, 255], two hex digits.
toHex(component) == <<HexChars[(component \div 16) + 1], HexChars[(component % 16) + 1]>>

\* One of the first three parts of an rgb()/rgba() argument list as the
\* clamped component: a percentage of 255 or a number, rounded; 0 for NaN.
RgbComponent(part) ==
    LET num == ParseFloat(part)
    IN IF IsNaN(num) THEN 0
       ELSE IF num.n <= 0 THEN 0
       ELSE IF ~IsFinite(num) THEN 255
       ELSE IF EndsWith(part, <<"%">>) THEN Min(255, RoundDiv(num.n * 255, num.d * 100))
       ELSE Min(255, RoundDiv(num.n, num.d))

\* The capture of /^rgba?\(([^)]+)\)$/i: <<>> when there is no match, else
\* <<inner>>.
RgbMatch(trimmed) ==
    LET lowered == ToLowerCase(trimmed)
        open == IF StartsAt(lowered, 1, <<"r", "g", "b", "(">>) THEN 4
                ELSE IF StartsAt(lowered, 1, <<"r", "g", "b", "a", "(">>) THEN 5
                ELSE 0
        inner == SubSeq(trimmed, open + 1, Len(trimmed) - 1)
    IN IF open # 0 /\ Len(trimmed) >= open + 2 /\ trimmed[Len(trimmed)] = ")"
          /\ \A i \in 1..Len(inner) : inner[i] # ")"
       THEN <<inner>>
       ELSE <<>>

\* The rgb branch of normalizeColor on the trimmed parts of the capture.
RgbToHex(trimmed, parts) ==
    IF Len(parts) >= 3
    THEN <<"#">> \o toHex(RgbComponent(Trim(parts[1]))) \o toHex(RgbComponent(Trim(parts[2])))
         \o toHex(RgbComponent(Trim(parts[3])))
    ELSE trimmed

\* normalizeColor: always a string, the trimmed input itself when it is
\* neither a hex colour of 3, 6 or 8 digits nor an rgb()/rgba() triple.
normalizeColor(value) ==
    LET trimmed == Trim(value)
    IN IF trimmed = <<>> THEN <<>>
       ELSE IF trimmed[1] = "#" /\ Len(trimmed) \in 4..9
               /\ \A i \in 2..Len(trimmed) : IsHexDigit(trimmed[i])
            THEN (IF Len(trimmed) = 4
                  THEN <<"#", trimmed[2], trimmed[2], trimmed[3], trimmed[3], trimmed[4], trimmed[4]>>
                  ELSE IF Len(trimmed) = 7 THEN trimmed
                  ELSE IF Len(trimmed) = 9 THEN SubSeq(trimmed, 1, 7)
                  ELSE trimmed)
       ELSE IF RgbMatch(trimmed) # <<>> THEN RgbToHex(trimmed, Split(RgbMatch(trimmed)[1], ","))
       ELSE trimmed

----------------------------------------------------------------------------
(* The HTML-to-model compiler convertHtmlToOdtDoc.  A DOM node is a record *)
(* with its nodeType; an element has its tagName, its classList, its       *)
(* attributes (name to value, a value being the characters of the          *)
(* attribute) and its childNodes; a text node has its textContent.  The    *)
(* measurements of the editor's tables, which the code takes from the live *)
(* DOM with measureTableLayout, are an input: one TableMeasurement per     *)
(* table of the editor root, none without an editor root.                  *)

ELEMENT_NODE == 1
TEXT_NODE == 3

IsElement(node) == node.nodeType = ELEMENT_NODE

\* el.children: the child nodes that are elements.
Children(el) == SelectSeq(el.childNodes, IsElement)

\* STYLE_MAP (styleMap.ts): class name to its entries, each <<key, value>>.
STYLE_MAP ==
    ("text-red" :> <<<<<<"c", "o", "l", "o", "r">>, <<"#", "f", "f", "0", "0", "0", "0">>>>>>)
    @@ ("text-blue" :> <<<<<<"c", "o", "l", "o", "r">>, <<"#", "0", "0", "7", "0", "f", "f">>>>>>)
    @@ ("text-green" :> <<<<<<"c", "o", "l", "o", "r">>, <<"#", "2", "e", "c", "c", "7", "1">>>>>>)
    @@ ("text-yellow" :> <<<<<<"c", "o", "l", "o", "r">>, <<"#", "f", "1", "c", "4", "0", "f">>>>>>)
    @@ ("text-gray" :> <<<<<<"c", "o", "l", "o", "r">>, <<"#", "5", "5", "5", "5", "5", "5">>>>>>)
    @@ ("font-12" :> <<<<<<"f", "o", "n", "t", "S", "i", "z", "e">>, <<"9", "p", "t">>>>>>)
    @@ ("font-14" :> <<<<<<"f", "o", "n", "t", "S", "i", "z", "e">>, <<"1", "0", ".", "5", "p", "t">>>>>>)
    @@ ("font-16" :> <<<<<<"f", "o", "n", "t", "S", "i", "z", "e">>, <<"1", "2", "p", "t">>>>>>)
    @@ ("font-18" :> <<<<<<"f", "o", "n", "t", "S", "i", "z", "e">>, <<"1", "3", ".", "5", "p", "t">>>>>>)
    @@ ("font-20" :> <<<<<<"f", "o", "n", "t", "S", "i", "z", "e">>, <<"1", "5", "p", "t">>>>>>)
    @@ ("font-24" :> <<<<<<"f", "o", "n", "t", "S", "i", "z", "e">>, <<"1", "8", "p", "t">>>>>>)
    @@ ("ql-size-small" :> <<<<<<"f", "o", "n", "t", "S", "i", "z", "e">>, <<"8", "p", "t">>>>>>)
    @@ ("ql-size-large" :> <<<<<<"f", "o", "n", "t", "S", "i", "z", "e">>, <<"1", "4", "p", "t">>>>>>)
    @@ ("ql-size-huge" :> <<<<<<"f", "o", "n", "t", "S", "i", "z", "e">>, <<"2", "4", "p", "t">>>>>>)
    @@ ("center" :> <<<<<<"t", "e", "x", "t", "A", "l", "i", "g", "n">>, <<"c", "e", "n", "t", "e", "r">>>>>>)
    @@ ("right" :> <<<<<<"t", "e", "x", "t", "A", "l", "i", "g", "n">>, <<"e", "n", "d">>>>>>)
    @@ ("left" :> <<<<<<"t", "e", "x", "t", "A", "l", "i", "g", "n">>, <<"s", "t", "a", "r", "t">>>>>>)
    @@ ("ql-align-center" :> <<<<<<"t", "e", "x", "t", "A", "l", "i", "g", "n">>, <<"c", "e", "n", "t", "e", "r">>>>>>)
    @@ ("ql-align-right" :> <<<<<<"t", "e", "x", "t", "A", "l", "i", "g", "n">>, <<"e", "n", "d">>>>>>)
    @@ ("ql-align-left" :> <<<<<<"t", "e", "x", "t", "A", "l", "i", "g", "n">>, <<"s", "t", "a", "r", "t">>>>>>)
    @@ ("ql-align-justify" :> <<<<<<"t", "e", "x", "t", "A", "l", "i", "g", "n">>, <<"j", "u", "s", "t", "i", "f", "y">>>>>>)
    @@ ("bold" :> <<<<<<"f", "o", "n", "t", "W", "e", "i", "g", "h", "t">>, <<"b", "o", "l", "d">>>>>>)
    @@ ("italic" :> <<<<<<"f", "o", "n", "t", "S", "t", "y", "l", "e">>, <<"i", "t", "a", "l", "i", "c">>>>>>)
    @@ ("underline" :> <<<<<<"t", "e", "x", "t", "D", "e", "c", "o", "r", "a", "t", "i", "o", "n">>, <<"u", "n", "d", "e", "r", "l", "i", "n", "e">>>>>>)
    @@ ("highlight-yellow" :> <<<<<<"b", "a", "c", "k", "g", "r", "o", "u", "n", "d", "C", "o", "l", "o", "r">>, <<"#", "f", "f", "f", "5", "9", "d">>>>>>)
    @@ ("highlight-green" :> <<<<<<"b", "a", "c", "k", "g", "r", "o", "u", "n", "d", "C", "o", "l", "o", "r">>, <<"#", "d", "4", "e", "f", "d", "f">>>>>>)
    @@ ("highlight-blue" :> <<<<<<"b", "a", "c", "k", "g", "r", "o", "u", "n", "d", "C", "o", "l", "o", "r">>, <<"#", "d", "6", "e", "a", "f", "8">>>>>>)
    @@ ("table-bordered" :> <<<<<<"b", "o", "r", "d", "e", "r">>, <<"1", "p", "x", " ", "s", "o", "l", "i", "d", " ", "#", "4", "4", "4">>>>>>)
    @@ ("table-borderless" :> <<<<<<"b", "o", "r", "d", "e", "r">>, <<"n", "o", "n", "e">>>>>>)

PARAGRAPH_TAGS == {"P", "DIV", "H1", "H2", "H3", "H4", "H5", "H6", "BLOCKQUOTE"}

BLOCK_TAG_SPAN_STYLES ==
    ("H1" :> [bold |-> TRUE, fontSize |-> "24pt"])
    @@ ("H2" :> [bold |-> TRUE, fontSize |-> "20pt"])
    @@ ("H3" :> [bold |-> TRUE, fontSize |-> "18pt"])
    @@ ("H4" :> [bold |-> TRUE, fontSize |-> "16pt"])

INLINE_TAG_STYLES ==
    ("STRONG" :> [bold |-> TRUE]) @@ ("B" :> [bold |-> TRUE])
    @@ ("EM" :> [italic |-> TRUE]) @@ ("I" :> [italic |-> TRUE])
    @@ ("U" :> [underline |-> TRUE])

\* The one-character string U+2022 of the unordered list marker.
BULLET == "<U+2022>"

\* el.matches(PAGE_BREAK_SELECTOR): the marker element the editor page joins
\* the pages with, <div data-page-break="true">.
MatchesPageBreak(el) ==
    Has(el.attributes, "data-page-break")
    /\ el.attributes["data-page-break"] = <<"t", "r", "u", "e">>

RECURSIVE toCssPropName(_)
\* toCssPropName: "-" and the lower-case letter for every upper-case one.
toCssPropName(key) ==
    IF key = <<>> THEN <<>>
    ELSE (IF LowerChar(Head(key)) # Head(key) THEN <<"-", LowerChar(Head(key))>> ELSE <<Head(key)>>)
         \o toCssPropName(Tail(key))

\* styles[property] = value
SetStyle(css, property, value) == (Str(property) :> value) @@ css

RECURSIVE ApplyEntries(_, _)
\* Object.entries(entry).forEach of collectCssStyles.
ApplyEntries(entries, css) ==
    IF entries = <<>> THEN css
    ELSE ApplyEntries(Tail(entries),
             SetStyle(css, toCssPropName(Head(entries)[1]), Head(entries)[2]))

RECURSIVE ApplyClasses(_, _)
\* el.classList.forEach of collectCssStyles.
ApplyClasses(classes, css) ==
    IF classes = <<>> THEN css
    ELSE ApplyClasses(Tail(classes),
             IF Head(classes) \in DOMAIN STYLE_MAP
             THEN ApplyEntries(STYLE_MAP[Head(classes)], css)
             ELSE css)

\* One rule of the inline style attribute.
ApplyRule(rule, css) ==
    LET colonIndex == IndexOf(rule, ":")
        property == ToLowerCase(Trim(SubSeq(rule, 1, colonIndex - 1)))
        value == Trim(SubSeq(rule, colonIndex + 1, Len(rule)))
    IN IF colonIndex = 0 THEN css
       ELSE IF property = <<>> \/ value = <<>> THEN css
       ELSE SetStyle(css, property, value)

RECURSIVE ApplyRules(_, _)
\* inlineStyle.split(';').map(trim).filter(Boolean).forEach(...)
ApplyRules(rules, css) ==
    IF rules = <<>> THEN css
    ELSE ApplyRules(Tail(rules),
             IF Trim(Head(rules)) = <<>> THEN css ELSE ApplyRule(Trim(Head(rules)), css))

\* collectCssStyles: the class entries first, the inline rules over them.
collectCssStyles(el) ==
    IF Has(el.attributes, "style") /\ el.attributes.style # <<>>
    THEN ApplyRules(Split(el.attributes.style, ";"), ApplyClasses(el.classList, EmptyObj))
    ELSE ApplyClasses(el.classList, EmptyObj)

\* css[name] when it is set and not the empty string.
CssValue(css, name) == IF Has(css, name) THEN css[name] ELSE <<>>

\* The font-weight rule of cssToStyles.
CssBold(weight) ==
    \/ Includes(weight, <<"b", "o", "l", "d">>)
    \/ (~IsNaN(ParseInt(weight)) /\ ParseInt(weight).n >= 600)

\* The text-align rule of cssToStyles: <<>> when align stays undefined.
CssAlign(normalized) ==
    IF normalized = "center" THEN <<"center">>
    ELSE IF normalized \in {"right", "end"} THEN <<"end">>
    ELSE IF normalized = "justify" THEN <<"justify">>
    ELSE IF normalized \in {"left", "start"} THEN <<"start">>
    ELSE <<>>

\* { [f]: opt[1] } when the optional result opt is defined (a defined result
\* of the normalisers is never the empty string).
OptDefined(f, opt) == IF opt # <<>> THEN f :> opt[1] ELSE EmptyObj

\* The string of a defined result (paragraph lengths are only copied on).
StrOf(opt) == IF opt = Undefined THEN Undefined ELSE Some(Str(opt[1]))

\* A length property of cssToStyles: cssLengthToCm of the value when it is set.
CssLength(css, name) ==
    IF CssValue(css, name) = <<>> THEN Undefined ELSE StrOf(cssLengthToCm(CssValue(css, name)))

\* cssToStyles: [span, paragraph] and align when it is defined.
cssToStyles(css) ==
    [span |->
        Opt(CssValue(css, "font-weight") # <<>>
            /\ CssBold(ToLowerCase(CssValue(css, "font-weight"))), "bold", TRUE)
        @@ Opt(Includes(ToLowerCase(CssValue(css, "font-style")), <<"i", "t", "a", "l", "i", "c">>),
               "italic", TRUE)
        @@ Opt(Includes(ToLowerCase(CssValue(css, "text-decoration")),
                        <<"u", "n", "d", "e", "r", "l", "i", "n", "e">>), "underline", TRUE)
        @@ Opt(CssValue(css, "color") # <<>>, "color", normalizeColor(CssValue(css, "color")))
        @@ OptDefined("fontSize",
                      IF CssValue(css, "font-size") = <<>> THEN Undefined
                      ELSE cssFontSizeToPt(CssValue(css, "font-size"))),
     paragraph |->
        OptDefined("lineHeight",
                   IF CssValue(css, "line-height") = <<>> THEN Undefined
                   ELSE normalizeLineHeight(CssValue(css, "line-height")))
        @@ OptDefined("marginTop", CssLength(css, "margin-top"))
        @@ OptDefined("marginBottom", CssLength(css, "margin-bottom"))
        @@ OptDefined("marginLeft", CssLength(css, "margin-left"))
        @@ OptDefined("marginRight", CssLength(css, "margin-right"))
        @@ OptDefined("textIndent", CssLength(css, "text-indent"))]
    @@ OptDefined("align", CssAlign(Str(ToLowerCase(CssValue(css, "text-align")))))

SpanStyleProps == {"bold", "italic", "underline", "color", "fontSize"}

\* One step of the reduce of mergeSpanStyles: the defined properties of style
\* replace those of acc.
MergeSpanStyle(acc, style) ==
    [f \in DOMAIN acc \cup (DOMAIN style \cap SpanStyleProps) |->
        IF f \in DOMAIN style \cap SpanStyleProps THEN style[f] ELSE acc[f]]

RECURSIVE MergeSpanStyles(_, _)
\* mergeSpanStyles(base, ...others)
MergeSpanStyles(base, others) ==
    IF others = <<>> THEN base
    ELSE MergeSpanStyles(MergeSpanStyle(base, Head(others)), Tail(others))

\* MAP[tagName] ?? {}
TagStyle(map, tagName) == IF tagName \in DOMAIN map THEN map[tagName] ELSE EmptyObj

\* getElementStyles on the result of cssToStyles(collectCssStyles(el)).
ElementStyles(el, fromCss) ==
    [fromCss EXCEPT !.span =
        MergeSpanStyles(EmptyObj, <<TagStyle(BLOCK_TAG_SPAN_STYLES, el.tagName),
                                    TagStyle(INLINE_TAG_STYLES, el.tagName), @>>)]

\* getElementStyles
getElementStyles(el) == ElementStyles(el, cssToStyles(collectCssStyles(el)))

\* sameSpanStyle without its comparison of the colours.
sameSpanStyleColorBlind(a, b) ==
    /\ TruthyBool(a, "bold") = TruthyBool(b, "bold")
    /\ TruthyBool(a, "italic") = TruthyBool(b, "italic")
    /\ TruthyBool(a, "underline") = TruthyBool(b, "underline")
    /\ (IF Has(a, "fontSize") THEN a.fontSize ELSE "") = (IF Has(b, "fontSize") THEN b.fontSize ELSE "")

\* sameSpanStyle
sameSpanStyle(a, b) ==
    /\ TruthyBool(a, "bold") = TruthyBool(b, "bold")
    /\ TruthyBool(a, "italic") = TruthyBool(b, "italic")
    /\ TruthyBool(a, "underline") = TruthyBool(b, "underline")
    /\ (IF Has(a, "color") THEN a.color ELSE <<>>) = (IF Has(b, "color") THEN b.color ELSE <<>>)
    /\ (IF Has(a, "fontSize") THEN a.fontSize ELSE "") = (IF Has(b, "fontSize") THEN b.fontSize ELSE "")

RECURSIVE MergeInto(_, _)
\* The spans.forEach of mergeAdjacentSpans, merged being the array built so
\* far.
MergeInto(spans, merged) ==
    IF spans = <<>> THEN merged
    ELSE MergeInto(Tail(spans),
             IF Head(spans).text = <<>> THEN merged
             ELSE IF merged # <<>> /\ sameSpanStyle(merged[Len(merged)], Head(spans))
                  THEN [merged EXCEPT ![Len(merged)].text = @ \o Head(spans).text]
                  ELSE Append(merged, Head(spans)))

\* mergeAdjacentSpans
mergeAdjacentSpans(spans) == MergeInto(spans, <<>>)

RECURSIVE flattenChildNodes(_, _)
RECURSIVE nodeToSpans(_, _)

\* nodeToSpans
nodeToSpans(node, inheritedStyle) ==
    IF node.nodeType = TEXT_NODE
    THEN (IF node.textContent = <<>> THEN <<>>
          ELSE <<("text" :> node.textContent) @@ inheritedStyle>>)
    ELSE IF node.nodeType = ELEMENT_NODE
    THEN (IF node.tagName = "BR" THEN <<("text" :> <<NL>>) @@ inheritedStyle>>
          ELSE IF node.childNodes = <<>> THEN <<>>
          ELSE flattenChildNodes(node.childNodes,
                   MergeSpanStyles(inheritedStyle, <<getElementStyles(node).span>>)))
    ELSE <<>>

\* flattenChildNodes
flattenChildNodes(nodes, inheritedStyle) ==
    IF nodes = <<>> THEN <<>>
    ELSE nodeToSpans(Head(nodes), inheritedStyle) \o flattenChildNodes(Tail(nodes), inheritedStyle)

ParagraphLayoutProps ==
    {"lineHeight", "marginTop", "marginBottom", "marginLeft", "marginRight", "textIndent"}

\* { spans, align } followed by applyParagraphLayout(paragraph, styles.paragraph).
ParagraphOf(spans, elementStyles) ==
    [spans |-> spans]
    @@ Opt(Has(elementStyles, "align"), "align", elementStyles.align)
    @@ [f \in DOMAIN elementStyles.paragraph \cap ParagraphLayoutProps |-> elementStyles.paragraph[f]]

\* The end of elementToParagraph, spans being the merged spans of el: <<>>
\* for null.
ParagraphOrNull(el, spans, elementStyles) ==
    IF spans = <<>> /\ el.tagName # "P" THEN <<>>
    ELSE <<ParagraphOf(spans, elementStyles)>>

ElementParagraph(el, elementStyles) ==
    ParagraphOrNull(el,
        mergeAdjacentSpans(flattenChildNodes(el.childNodes,
                               MergeSpanStyles(EmptyObj, <<elementStyles.span>>))),
        elementStyles)

\* elementToParagraph: <<paragraph>>, or <<>> for null.
elementToParagraph(el) == ElementParagraph(el, getElementStyles(el))

RECURSIVE ParagraphsOf(_)
\* blockChildren.map(elementToParagraph).filter(paragraph => paragraph !== null)
ParagraphsOf(els) ==
    IF els = <<>> THEN <<>> ELSE elementToParagraph(Head(els)) \o ParagraphsOf(Tail(els))

\* elementToParagraphs
elementToParagraphs(el) ==
    IF SelectSeq(Children(el), LAMBDA child : child.tagName \in PARAGRAPH_TAGS) # <<>>
    THEN ParagraphsOf(SelectSeq(Children(el), LAMBDA child : child.tagName \in PARAGRAPH_TAGS))
    ELSE elementToParagraph(el)

\* tableEl.rows: the TR elements of the table, those directly under it and
\* those of its THEAD, TBODY and TFOOT sections.
RECURSIVE TableRowElements(_)
TableRowElements(els) ==
    IF els = <<>> THEN <<>>
    ELSE (IF Head(els).tagName = "TR" THEN <<Head(els)>>
          ELSE IF Head(els).tagName \in {"THEAD", "TBODY", "TFOOT"}
               THEN SelectSeq(Children(Head(els)), LAMBDA row : row.tagName = "TR")
               ELSE <<>>)
         \o TableRowElements(Tail(els))

\* row.cells: the TD and TH children of a row.
RowCells(row) == SelectSeq(Children(row), LAMBDA cell : cell.tagName \in {"TD", "TH"})

\* cell.colSpan and cell.rowSpan: the number of the attribute, 1 without it.
SpanAttr(cell, name) ==
    IF Has(cell.attributes, name) /\ ~IsNaN(ParseInt(cell.attributes[name]))
       /\ ParseInt(cell.attributes[name]).n > 0
    THEN ParseInt(cell.attributes[name]).n
    ELSE 1

\* tableElementToTable with colSpan: cell.colSpan and rowSpan: cell.rowSpan,
\* without the test for a span above 1.
CellOfAnySpan(cell, backgroundCss) ==
    [paragraphs |-> elementToParagraphs(cell),
     colSpan |-> SpanAttr(cell, "colspan"), rowSpan |-> SpanAttr(cell, "rowspan")]
    @@ Opt(backgroundCss # <<>>, "backgroundColor", normalizeColor(backgroundCss))

\* One cell of tableElementToTable; backgroundCss is css['background-color'],
\* <<>> when it is not set.
CellOf(cell, backgroundCss) ==
    [paragraphs |-> elementToParagraphs(cell)]
    @@ Opt(SpanAttr(cell, "colspan") > 1, "colSpan", SpanAttr(cell, "colspan"))
    @@ Opt(SpanAttr(cell, "rowspan") > 1, "rowSpan", SpanAttr(cell, "rowspan"))
    @@ Opt(backgroundCss # <<>>, "backgroundColor", normalizeColor(backgroundCss))

RECURSIVE CellsOf(_)
CellsOf(cells) ==
    IF cells = <<>> THEN <<>>
    ELSE <<CellOf(Head(cells), CssValue(collectCssStyles(Head(cells)), "background-color"))>>
         \o CellsOf(Tail(cells))

RECURSIVE RowsOf(_)
RowsOf(rows) ==
    IF rows = <<>> THEN <<>>
    ELSE <<[cells |-> CellsOf(RowCells(Head(rows)))]>> \o RowsOf(Tail(rows))

\* el.getAttribute(name) || '': the characters of the attribute, '' without it.
GetAttribute(el, name) == IF Has(el.attributes, name) THEN el.attributes[name] ELSE <<>>

\* el.style.width: the width the style attribute declares, '' without one.
StyleWidth(el) ==
    IF Has(el.attributes, "style") /\ el.attributes.style # <<>>
    THEN CssValue(ApplyRules(Split(el.attributes.style, ";"), EmptyObj), "width")
    ELSE <<>>

\* [\d.]
IsDigitOrDot(c) == IsDigit(c) \/ c = "."

\* The index of the last character of the longest run of characters of the
\* class that starts at index i, i - 1 when there is none.
RunEndAt(cs, i, InClass(_)) ==
    CHOOSE j \in (i - 1)..Len(cs) :
        /\ \A k \in i..j : InClass(cs[k])
        /\ j = Len(cs) \/ ~InClass(cs[j + 1])

\* /([\d.]+)\s*%/ matches at index i.
PercentAt(cs, i) ==
    /\ IsDigitOrDot(cs[i])
    /\ RunEndAt(cs, RunEndAt(cs, i, IsDigitOrDot) + 1, IsSpace) + 1 <= Len(cs)
    /\ cs[RunEndAt(cs, RunEndAt(cs, i, IsDigitOrDot) + 1, IsSpace) + 1] = "%"

\* source.match(/([\d.]+)\s*%/): the first group of the leftmost match, or
\* undefined.
MatchPercent(cs) ==
    IF \E i \in 1..Len(cs) : PercentAt(cs, i)
    THEN LET first == CHOOSE i \in 1..Len(cs) :
                          PercentAt(cs, i) /\ \A j \in 1..(i - 1) : ~PercentAt(cs, j)
         IN Some(SubSeq(cs, first, RunEndAt(cs, first, IsDigitOrDot)))
    ELSE Undefined

\* The return of extractTableWidthPercent for source = inlineWidth || widthAttr.
\* Number.isNaN(value) ? undefined : value
UnlessNaN(value) == IF IsNaN(value) THEN Undefined ELSE Some(value)

\* if (!match) return undefined; parseFloat(match[1])
PercentValue(match) == IF match = Undefined THEN Undefined ELSE UnlessNaN(ParseFloat(match[1]))

WidthPercentOf(source) ==
    IF source = <<>> THEN Undefined ELSE PercentValue(MatchPercent(source))

\* a || b on strings
OrElse(a, b) == IF a # <<>> THEN a ELSE b

extractTableWidthPercent(tableEl) ==
    WidthPercentOf(OrElse(StyleWidth(tableEl), GetAttribute(tableEl, "width")))

\* cssLengthToCm of each of the values.
LengthsToCm(values) == [k \in 1..Len(values) |-> cssLengthToCm(values[k])]

\* a ?? b ?? c: the first of the values that is defined, or undefined.
FirstDefined(values) ==
    IF \A k \in 1..Len(values) : values[k] = Undefined THEN Undefined
    ELSE values[CHOOSE k \in 1..Len(values) :
                    values[k] # Undefined /\ \A j \in 1..(k - 1) : values[j] = Undefined]

\* extractTableWidthCm: the first of the inline width, the width attribute
\* and the collected css width that cssLengthToCm normalizes.
extractTableWidthCm(tableEl) ==
    FirstDefined(LengthsToCm(<<StyleWidth(tableEl), GetAttribute(tableEl, "width"),
                               CssValue(collectCssStyles(tableEl), "width")>>))

PAGE_CONTENT_WIDTH_CM == 17

\* getNextTableRatio: the ratio measured for the table at the cursor, or
\* undefined; the caller moves the cursor on.
getNextTableRatio(context) ==
    IF context.tableCursor + 1 > Len(context.tableRatios) THEN Undefined
    ELSE IF context.tableRatios[context.tableCursor + 1] = Undefined THEN Undefined
    ELSE IF ~IsFinite(context.tableRatios[context.tableCursor + 1][1])
            \/ context.tableRatios[context.tableCursor + 1][1].n <= 0
    THEN Undefined
    ELSE context.tableRatios[context.tableCursor + 1]

\* The context after getNextTableRatio.
Advanced(context) == [context EXCEPT !.tableCursor = @ + 1]

\* Math.min(Math.max(ratio, lowN / lowD), 1)
Clamped(ratio, lowN, lowD) ==
    IF ratio.n * lowD < lowN * ratio.d THEN Num(lowN, lowD)
    ELSE IF ratio.n > ratio.d THEN Num(1, 1)
    ELSE ratio

\* The return of computeTableWidthFromLayout for a clamped ratio.
LayoutWidth(context, clamped) ==
    [widthPct |-> Num(RoundShifted(clamped.n * 100, clamped.d, 2), 100),
     widthCm |-> ToFixedChars(context.pageWidthCm * clamped.n, clamped.d, 4) \o CM]

\* computeTableWidthFromLayout: undefined, or widthPct and widthCm together.
computeTableWidthFromLayout(tableEl, context) ==
    IF getNextTableRatio(context) = Undefined THEN Undefined
    ELSE Some(LayoutWidth(context, Clamped(getNextTableRatio(context)[1], 1, 100)))

\* One column of computeColumnWidthsFromLayout.
LayoutColumnWidth(context, ratio) ==
    IF ratio = Undefined THEN Undefined
    ELSE IF ~IsFinite(ratio[1]) \/ ratio[1].n <= 0 THEN Undefined
    ELSE Some(ToFixedChars(context.pageWidthCm * Clamped(ratio[1], 1, 1000).n,
                           Clamped(ratio[1], 1, 1000).d, 4) \o CM)

\* computeColumnWidthsFromLayout, called after the cursor has moved on.
computeColumnWidthsFromLayout(context) ==
    IF context.tableCursor - 1 < 0 THEN <<>>
    ELSE IF context.tableCursor > Len(context.tableColumnRatios) THEN <<>>
    ELSE [i \in 1..Len(context.tableColumnRatios[context.tableCursor]) |->
             LayoutColumnWidth(context, context.tableColumnRatios[context.tableCursor][i])]

\* array[index] of an array with holes, index counted from 0.
WidthAt(widths, index) == IF index + 1 <= Len(widths) THEN widths[index + 1] ELSE Undefined

\* widths[index] = value, index counted from 0: the array grows, with holes,
\* up to the index.
SetAt(widths, index, value) ==
    [k \in 1..Max(Len(widths), index + 1) |->
        IF k = index + 1 THEN value ELSE IF k <= Len(widths) THEN widths[k] ELSE Undefined]

\* mergeColumnWidths(original, fallback): original is undefined or an array.
mergeColumnWidths(original, fallback) ==
    [i \in 1..Max(IF original = Undefined THEN 0 ELSE Len(original[1]), Len(fallback)) |->
        IF original # Undefined /\ WidthAt(original[1], i - 1) # Undefined
        THEN WidthAt(original[1], i - 1)
        ELSE WidthAt(fallback, i - 1)]

RECURSIVE Descendants(_)
\* The elements below the nodes, in document order.
Descendants(nodes) ==
    IF nodes = <<>> THEN <<>>
    ELSE (IF IsElement(Head(nodes))
          THEN <<Head(nodes)>> \o Descendants(Head(nodes).childNodes)
          ELSE <<>>)
         \o Descendants(Tail(nodes))

\* The <col> children of tableEl.querySelector('colgroup'), none without a
\* colgroup.
ColElements(tableEl) ==
    LET groups == SelectSeq(Descendants(tableEl.childNodes), LAMBDA el : el.tagName = "COLGROUP")
    IN IF groups = <<>> THEN <<>>
       ELSE SelectSeq(Children(groups[1]), LAMBDA el : el.tagName = "COL")

\* Math.max(spanAttr ? parseInt(spanAttr, 10) || 1 : 1, 1)
SpanNumber(value) == IF IsNaN(value) THEN 1 ELSE Max(value.n, 1)

ColSpanValue(spanAttr) == IF spanAttr = <<>> THEN 1 ELSE SpanNumber(ParseInt(spanAttr))

ColSpanOf(col) == ColSpanValue(GetAttribute(col, "span"))

\* The for loop over the span of a <col>: the width at each of its columns.
ColWidths(widths, colIndex, span, normalized) ==
    IF normalized = Undefined THEN widths
    ELSE [k \in 1..Max(Len(widths), colIndex + span) |->
             IF colIndex < k /\ k <= colIndex + span THEN normalized ELSE widths[k]]

RECURSIVE ColGroupWidths(_, _, _)
\* The body of the forEach for the first <col>, then the <col>s after it.
ColGroupStep(cols, widths, colIndex, span) ==
    ColGroupWidths(Tail(cols),
        ColWidths(widths, colIndex, span,
            cssLengthToCm(OrElse(StyleWidth(Head(cols)), GetAttribute(Head(cols), "width")))),
        colIndex + span)

\* The forEach over the children of the colgroup.
ColGroupWidths(cols, widths, colIndex) ==
    IF cols = <<>> THEN widths
    ELSE ColGroupStep(cols, widths, colIndex, ColSpanOf(Head(cols)))

\* The widths of the data-colwidth of a cell that are finite and positive.
PositiveWidths(parts) ==
    SelectSeq([k \in 1..Len(parts) |-> ParseFloat(Trim(parts[k]))],
              LAMBDA value : IsFinite(value) /\ value.n > 0)

ColWidthCandidates(cell) ==
    IF GetAttribute(cell, "data-colwidth") = <<>> THEN <<>>
    ELSE PositiveWidths(Split(GetAttribute(cell, "data-colwidth"), ","))

\* candidates[i] ?? candidates[0]
CandidateAt(candidates, i) ==
    IF i + 1 <= Len(candidates) THEN Some(candidates[i + 1])
    ELSE IF candidates # <<>> THEN Some(candidates[1])
    ELSE Undefined

\* if (!widths[columnIndex] && normalized) widths[columnIndex] = normalized
FillAt(widths, columnIndex, normalized) ==
    IF WidthAt(widths, columnIndex) = Undefined /\ normalized # Undefined
    THEN SetAt(widths, columnIndex, normalized)
    ELSE widths

\* One turn of the loop over the columns of a cell: the data-colwidth, then
\* the inline width, then the width attribute, the first that gives a width.
FillFrom(widths, columnIndex, fromPx, fromCss) ==
    FillAt(FillAt(FillAt(widths, columnIndex, fromPx), columnIndex, fromCss[1]),
           columnIndex, fromCss[2])

CellColumnWidth(widths, columnIndex, cell, widthPx) ==
    FillFrom(widths, columnIndex,
             IF widthPx = Undefined THEN Undefined ELSE pxToCm(widthPx[1]),
             LengthsToCm(<<StyleWidth(cell), GetAttribute(cell, "width")>>))

RECURSIVE CellWidths(_, _, _, _)
\* The loop over the colSpan columns of a cell, from its i-th column on.
CellWidths(widths, columnIndex, cell, i) ==
    IF i >= SpanAttr(cell, "colspan") THEN widths
    ELSE CellWidths(CellColumnWidth(widths, columnIndex, cell,
                        CandidateAt(ColWidthCandidates(cell), i)),
                    columnIndex + 1, cell, i + 1)

RECURSIVE RowWidths(_, _, _)
\* The forEach over the cells of a row.
RowWidths(cells, widths, columnIndex) ==
    IF cells = <<>> THEN widths
    ELSE RowWidths(Tail(cells), CellWidths(widths, columnIndex, Head(cells), 0),
                   columnIndex + SpanAttr(Head(cells), "colspan"))

RECURSIVE RowsWidths(_, _)
\* The forEach over the rows of the table.
RowsWidths(rows, widths) ==
    IF rows = <<>> THEN widths
    ELSE RowsWidths(Tail(rows), RowWidths(RowCells(Head(rows)), widths, 0))

\* widths.some(Boolean) ? widths : undefined
SomeOrUndefined(widths) ==
    IF \E k \in 1..Len(widths) : widths[k] # Undefined THEN Some(widths) ELSE Undefined

\* extractTableColumnWidths
extractTableColumnWidths(tableEl) ==
    SomeOrUndefined(RowsWidths(TableRowElements(Children(tableEl)),
                        ColGroupWidths(ColElements(tableEl), <<>>, 0)))

\* widthPct = widthPctAttr ?? layoutWidth?.widthPct, and widthCm likewise: a
\* field is left out when its value is undefined.
TableWidth(widthPctAttr, widthCmAttr, layoutWidth) ==
    Opt(widthPctAttr # Undefined \/ layoutWidth # Undefined, "widthPct",
        IF widthPctAttr # Undefined THEN widthPctAttr[1] ELSE layoutWidth[1].widthPct)
    @@ Opt(widthCmAttr # Undefined \/ layoutWidth # Undefined, "widthCm",
           IF widthCmAttr # Undefined THEN widthCmAttr[1] ELSE layoutWidth[1].widthCm)

\* tableElementToTable; the context is the one before getNextTableRatio.
tableElementToTable(tableEl, context) ==
    [rows |-> RowsOf(TableRowElements(Children(tableEl))),
     columnWidths |-> mergeColumnWidths(extractTableColumnWidths(tableEl),
                          computeColumnWidthsFromLayout(Advanced(context)))]
    @@ TableWidth(extractTableWidthPercent(tableEl), extractTableWidthCm(tableEl),
                  computeTableWidthFromLayout(tableEl, context))

\* The marker of a list item: "N. " in an ordered list, the bullet and a
\* space otherwise.
ListMark(ordered, idx) == IF ordered THEN IntChars(idx + 1) \o <<".", " ">> ELSE <<BULLET, " ">>

\* The block of a list item from the result of elementToParagraph: nothing
\* for null, else the paragraph with the mark before the text of its first
\* span.
ListItemBlock(paragraph, mark) ==
    IF paragraph = <<>> THEN <<>>
    ELSE <<[type |-> "paragraph",
            value |-> IF paragraph[1].spans # <<>>
                      THEN [paragraph[1] EXCEPT !.spans[1].text = mark \o @]
                      ELSE paragraph[1]]>>

RECURSIVE ListBlocks(_, _, _)
\* Array.from(el.children).forEach((child, idx) => ...) of a UL or OL.
ListBlocks(children, idx, ordered) ==
    IF children = <<>> THEN <<>>
    ELSE (IF Head(children).tagName # "LI" THEN <<>>
          ELSE ListItemBlock(elementToParagraph(Head(children)), ListMark(ordered, idx)))
         \o ListBlocks(Tail(children), idx + 1, ordered)

\* if (paragraph) blocks.push({ type: 'paragraph', value: paragraph })
ParagraphBlock(paragraph) ==
    IF paragraph = <<>> THEN <<>> ELSE <<[type |-> "paragraph", value |-> paragraph[1]]>>

RECURSIVE collectBlocks(_, _)
RECURSIVE ElementBlocks(_, _)

\* The body of the forEach of collectBlocks for one child element: the
\* blocks it pushes, and the context after it.
ElementBlocks(el, context) ==
    IF MatchesPageBreak(el) THEN [blocks |-> <<[type |-> "pageBreak"]>>, context |-> context]
    ELSE IF el.tagName = "TABLE"
    THEN [blocks |-> <<[type |-> "table", value |-> tableElementToTable(el, context)]>>,
          context |-> Advanced(context)]
    ELSE IF el.tagName \in {"UL", "OL"}
    THEN [blocks |-> ListBlocks(Children(el), 0, el.tagName = "OL"), context |-> context]
    ELSE IF el.tagName \in PARAGRAPH_TAGS
    THEN [blocks |-> ParagraphBlock(elementToParagraph(el)), context |-> context]
    ELSE collectBlocks(Children(el), context)

\* The blocks of the first child followed by those of the children after it.
BlocksThen(first, rest) ==
    [blocks |-> first.blocks \o rest.blocks, context |-> rest.context]

\* The forEach goes on with the context the first child left.
BlocksAfter(first, rest) ==
    Strict(first, BlocksThen(first, collectBlocks(rest, first.context)))

\* collectBlocks, on the children of its root: the blocks, and the context
\* as the call leaves it.
collectBlocks(children, context) ==
    IF children = <<>> THEN [blocks |-> <<>>, context |-> context]
    ELSE BlocksAfter(ElementBlocks(Head(children), context), Tail(children))

\* The title of the converted document, three Hangul syllables.
TITLE == "<U+C54C><U+B9BC><U+C7A5>"

\* The ConversionContext of convertHtmlToOdtDoc.
ConversionContext(tableMeasurements) ==
    [pageWidthCm |-> PAGE_CONTENT_WIDTH_CM,
     tableRatios |-> [i \in 1..Len(tableMeasurements) |->
                         IF Has(tableMeasurements[i], "tableRatio")
                         THEN Some(tableMeasurements[i].tableRatio) ELSE Undefined],
     tableColumnRatios |-> [i \in 1..Len(tableMeasurements) |->
                               tableMeasurements[i].columnRatios],
     tableCursor |-> 0]

\* convertHtmlToOdtDoc, on the element children of the parsed body and the
\* measurements of the tables of the editor root (none without one).
convertHtmlToOdtDoc(body, tableMeasurements) ==
    [meta |-> [title |-> TITLE, creator |-> "ODT Demo"],
     styles |-> [bodyFont |-> "Malgun Gothic"],
     body |-> collectBlocks(body, ConversionContext(tableMeasurements)).blocks]

----------------------------------------------------------------------------
(* Parsed HTML.                                                            *)

Text(textContent) == [nodeType |-> TEXT_NODE, textContent |-> textContent]

Element(tagName, classList, attributes, childNodes) ==
    [nodeType |-> ELEMENT_NODE, tagName |-> tagName, classList |-> classList,
     attributes |-> attributes, childNodes |-> childNodes]

\* <tag>children</tag>
Tag(tagName, childNodes) == Element(tagName, <<>>, EmptyObj, childNodes)

\* <tag style="...">children</tag>
Styled(tagName, style, childNodes) == Element(tagName, <<>>, [style |-> style], childNodes)

\* <p><br></p>
eBreak == Tag("P", <<Tag("BR", <<>>)>>)

\* <p></p>
eEmptyP == Tag("P", <<>>)

\* <p>a<b>b</b><strong>c</strong><i></i></p>
eRuns ==
    Tag("P", <<Text(<<"a">>), Tag("B", <<Text(<<"b">>)>>), Tag("STRONG", <<Text(<<"c">>)>>),
               Tag("I", <<>>)>>)

\* <p><span style="color: red">r</span><span style="color:#aBc">s</span>
\* <span style="COLOR: rgb(255, 0, 128)">t</span></p>
eColours ==
    Tag("P",
        <<Styled("SPAN", <<"c", "o", "l", "o", "r", ":", " ", "r", "e", "d">>, <<Text(<<"r">>)>>),
          Styled("SPAN", <<"c", "o", "l", "o", "r", ":", "#", "a", "B", "c">>, <<Text(<<"s">>)>>),
          Styled("SPAN", <<"C", "O", "L", "O", "R", ":", " ", "r", "g", "b", "(", "2", "5", "5",
                           ",", " ", "0", ",", " ", "1", "2", "8", ")">>, <<Text(<<"t">>)>>)>>)

\* <h1 class="center text-blue unknown">h</h1>
eHeading == Element("H1", <<"center", "text-blue", "unknown">>, EmptyObj, <<Text(<<"h">>)>>)

\* <p style="margin-top: 10px; font-weight:700; text-indent: -5px">m<br>n</p>
eStyled ==
    Styled("P", <<"m", "a", "r", "g", "i", "n", "-", "t", "o", "p", ":", " ", "1", "0", "p", "x",
                  ";", " ", "f", "o", "n", "t", "-", "w", "e", "i", "g", "h", "t", ":", "7", "0",
                  "0", ";", " ", "t", "e", "x", "t", "-", "i", "n", "d", "e", "n", "t", ":", " ",
                  "-", "5", "p", "x">>,
           <<Text(<<"m">>), Tag("BR", <<>>), Text(<<"n">>)>>)

\* <ol><li>a</li><li><u>b</u>c</li></ol>
eOrdered ==
    Tag("OL", <<Tag("LI", <<Text(<<"a">>)>>),
                Tag("LI", <<Tag("U", <<Text(<<"b">>)>>), Text(<<"c">>)>>)>>)

\* <ol><li></li><li>b</li></ol>
eOrderedGap == Tag("OL", <<Tag("LI", <<>>), Tag("LI", <<Text(<<"b">>)>>)>>)

\* <ul><li>a</li><li><em>b</em></li></ul>
eUnordered ==
    Tag("UL", <<Tag("LI", <<Text(<<"a">>)>>), Tag("LI", <<Tag("EM", <<Text(<<"b">>)>>)>>)>>)

\* <table><tbody><tr><td style="background-color: #ABCDEF"><p>x</p><p>y</p></td>
\* <td colspan="2" class="highlight-yellow" style="background-color: yellow">z</td>
\* </tr></tbody></table>
eTable ==
    Tag("TABLE", <<Tag("TBODY", <<Tag("TR",
        <<Styled("TD", <<"b", "a", "c", "k", "g", "r", "o", "u", "n", "d", "-", "c", "o", "l", "o",
                         "r", ":", " ", "#", "A", "B", "C", "D", "E", "F">>,
                 <<Tag("P", <<Text(<<"x">>)>>), Tag("P", <<Text(<<"y">>)>>)>>),
          Element("TD", <<"highlight-yellow">>,
                  [colspan |-> <<"2">>,
                   style |-> <<"b", "a", "c", "k", "g", "r", "o", "u", "n", "d", "-", "c", "o",
                               "l", "o", "r", ":", " ", "y", "e", "l", "l", "o", "w">>],
                  <<Text(<<"z">>)>>)>>)>>)>>)

\* <table width="50%"><tbody><tr><td>p</td></tr></tbody></table>
eTablePct ==
    Element("TABLE", <<>>, [width |-> <<"5", "0", "%">>],
        <<Tag("TBODY", <<Tag("TR", <<Tag("TD", <<Text(<<"p">>)>>)>>)>>)>>)

\* <table style="width: 10cm"><colgroup><col span="2" width="2cm"><col></colgroup>
\* <tbody><tr><td colspan="2" data-colwidth="100,50">c</td>
\* <td style="width: 30px">d</td></tr></tbody></table>
eTableCols ==
    Styled("TABLE", <<"w", "i", "d", "t", "h", ":", " ", "1", "0", "c", "m">>,
        <<Tag("COLGROUP",
              <<Element("COL", <<>>, [span |-> <<"2">>, width |-> <<"2", "c", "m">>], <<>>),
                Tag("COL", <<>>)>>),
          Tag("TBODY", <<Tag("TR",
              <<Element("TD", <<>>,
                        ("colspan" :> <<"2">>)
                        @@ ("data-colwidth" :> <<"1", "0", "0", ",", "5", "0">>),
                        <<Text(<<"c">>)>>),
                Styled("TD", <<"w", "i", "d", "t", "h", ":", " ", "3", "0", "p", "x">>,
                       <<Text(<<"d">>)>>)>>)>>)>>)

\* <table><tbody><tr><td colspan="1" rowspan="2">e</td><td colspan="3" rowspan="1">f</td>
\* </tr><tr><td>g</td></tr></tbody></table>
eTableSpans ==
    Tag("TABLE", <<Tag("TBODY",
        <<Tag("TR", <<Element("TD", <<>>, [colspan |-> <<"1">>, rowspan |-> <<"2">>],
                              <<Text(<<"e">>)>>),
                      Element("TD", <<>>, [colspan |-> <<"3">>, rowspan |-> <<"1">>],
                              <<Text(<<"f">>)>>)>>),
          Tag("TR", <<Tag("TD", <<Text(<<"g">>)>>)>>)>>)>>)

\* <p><b style="font-weight: normal">w</b></p>
eBoldOff ==
    Tag("P", <<Styled("B", <<"f", "o", "n", "t", "-", "w", "e", "i", "g", "h", "t", ":", " ",
                   "n", "o", "r", "m", "a", "l">>,
                      <<Text(<<"w">>)>>)>>)

\* <h2 style="font-size: 10pt; font-weight: 700">k</h2>
eHeadingSized ==
    Styled("H2", <<"f", "o", "n", "t", "-", "s", "i", "z", "e", ":", " ", "1", "0",
                   "p", "t", ";", " ", "f", "o", "n", "t", "-", "w",
                   "e", "i", "g", "h", "t", ":", " ", "7", "0", "0">>,
           <<Text(<<"k">>)>>)

\* <div data-page-break="true"></div>
ePageBreak == Element("DIV", <<>>, ("data-page-break" :> <<"t", "r", "u", "e">>), <<>>)

\* <section><p>a</p><div></div><blockquote class="italic">q</blockquote></section>
eSection ==
    Tag("SECTION", <<Tag("P", <<Text(<<"a">>)>>), Tag("DIV", <<>>),
                     Element("BLOCKQUOTE", <<"italic">>, EmptyObj, <<Text(<<"q">>)>>)>>)

Elements ==
    {eBreak, eEmptyP, eRuns, eColours, eHeading, eStyled, eOrdered, eOrderedGap, eUnordered,
     eTable, eTablePct, eTableCols, ePageBreak, eSection, eBoldOff, eHeadingSized}

MaxNodes == 2

\* The element children of a parsed body.
HtmlBodies == UNION {[1..n -> Elements] : n \in 0..MaxNodes}

\* The TableMeasurement of a table half as wide as the page content, its
\* first column a quarter of it and its second column without a width.
mHalf == [tableRatio |-> Num(1, 2), columnRatios |-> <<Some(Num(1, 4)), Undefined>>]

\* The TableMeasurement of a table whose rectangle has no width.
mUnmeasured == [columnRatios |-> <<>>]

\* tableMeasurements: none without an editor root, else one per table of
\* the editor root in document order.
TableMeasurements == {<<>>, <<mHalf>>, <<mUnmeasured, mHalf>>}

----------------------------------------------------------------------------
(* The conversion of a parsed document: html is the body the editor page   *)
(* hands to convertHtmlToOdtDoc and arg the measurements of the editor's   *)
(* tables, odtDoc the document it returns.                                 *)

InitHtml ==
    /\ html \in HtmlBodies
    /\ pc = "parsed"
    /\ odtDoc = NoDoc
    /\ pending = <<>>
    /\ styles = NewStyleRegistry
    /\ exports = <<>>
    /\ saved = <<>>
    /\ arg \in TableMeasurements
    /\ result = <<>>

ConvertHtmlToOdtDoc ==
    /\ pc = "parsed"
    /\ odtDoc' = convertHtmlToOdtDoc(html, arg)
    /\ pc' = "converted"
    /\ UNCHANGED <<pending, styles, exports, saved, html, arg, result>>

NextHtml == ConvertHtmlToOdtDoc

SpecHtml == InitHtml /\ [][NextHtml]_vars

\* The cells of a converted block.
BlockCells(block) ==
    IF block.type = "table"
    THEN UNION {{block.value.rows[i].cells[j] : j \in 1..Len(block.value.rows[i].cells)} :
                   i \in 1..Len(block.value.rows)}
    ELSE {}

\* The paragraphs of a converted block: the paragraph itself, or those of
\* the cells of a table.
BlockParagraphs(block) ==
    IF block.type = "paragraph" THEN {block.value}
    ELSE UNION {{c.paragraphs[k] : k \in 1..Len(c.paragraphs)} : c \in BlockCells(block)}

\* The colours a document carries: those of its spans and the backgrounds
\* of its cells.
DocColours(doc) ==
    UNION {{p.spans[i].color : i \in {j \in 1..Len(p.spans) : Has(p.spans[j], "color")}} :
              p \in UNION {BlockParagraphs(doc.body[n]) : n \in 1..Len(doc.body)}}
    \cup {c.backgroundColor :
             c \in {d \in UNION {BlockCells(doc.body[n]) : n \in 1..Len(doc.body)} :
                       Has(d, "backgroundColor")}}

\* "#" followed by exactly six hexadecimal digits.
IsHexColour(cs) == Len(cs) = 7 /\ cs[1] = "#" /\ \A i \in 2..7 : IsHexDigit(cs[i])

\* C6: the parsed body of '<p><br></p>' converts to exactly one paragraph
\* block, and the spans of that paragraph are empty.
C6_LoneBreakHasNoSpan ==
    (pc = "converted" /\ html = <<eBreak>>)
        => (/\ Len(odtDoc.body) = 1
            /\ odtDoc.body[1].type = "paragraph"
            /\ odtDoc.body[1].value.spans = <<>>)

\* The LI children of a list element.
ListItems(list) == SelectSeq(Children(list), LAMBDA child : child.tagName = "LI")

\* C8: a body that is one OL or UL converts to one paragraph block per LI
\* child, in order, and the first span of the N-th block starts with "N. "
\* in an ordered list and with the bullet and a space in an unordered one.
C8_OneMarkedBlockPerItem ==
    (pc = "converted" /\ Len(html) = 1 /\ html[1].tagName \in {"OL", "UL"})
        => (/\ Len(odtDoc.body) = Len(ListItems(html[1]))
            /\ \A n \in 1..Len(odtDoc.body) :
                  /\ odtDoc.body[n].type = "paragraph"
                  /\ odtDoc.body[n].value.spans # <<>>
                  /\ StartsAt(odtDoc.body[n].value.spans[1].text, 1,
                              IF html[1].tagName = "OL" THEN IntChars(n) \o <<".", " ">>
                              ELSE <<BULLET, " ">>))

\* C10: every span colour and every cell background colour of a converted
\* document is "#" followed by exactly six hexadecimal digits (a colour
\* value of another form sets no colour).
C10_ColoursAreSixHexDigits ==
    pc = "converted" => \A colour \in DocColours(odtDoc) : IsHexColour(colour)

----------------------------------------------------------------------------
(* mergeAdjacentSpans on the spans flattenChildNodes extracts: each has a  *)
(* text that is not empty and the style properties mergeSpanStyles sets.   *)

MaxSpans == 3

ExtractedSpans ==
    {[text |-> <<"a">>], [text |-> <<"b">>],
     [text |-> <<"c">>, bold |-> TRUE], [text |-> <<NL>>, bold |-> TRUE],
     [text |-> <<"d">>, color |-> <<"#", "f", "f", "0", "0", "0", "0">>],
     [text |-> <<"e">>, color |-> <<"b", "l", "u", "e">>],
     [text |-> <<"f">>, bold |-> TRUE, color |-> <<"#", "f", "f", "0", "0", "0", "0">>],
     [text |-> <<"g">>, italic |-> TRUE, underline |-> TRUE, fontSize |-> "9pt"]}

InitSpans ==
    /\ arg \in UNION {[1..n -> ExtractedSpans] : n \in 0..MaxSpans}
    /\ pc = "extracted"
    /\ result = <<>>
    /\ html = <<>>
    /\ odtDoc = NoDoc
    /\ pending = <<>>
    /\ styles = NewStyleRegistry
    /\ exports = <<>>
    /\ saved = <<>>

MergeAdjacentSpans ==
    /\ pc = "extracted"
    /\ result' = mergeAdjacentSpans(arg)
    /\ pc' = "merged"
    /\ UNCHANGED <<pending, styles, exports, saved, html, odtDoc, arg>>

NextSpans == MergeAdjacentSpans

SpecSpans == InitSpans /\ [][NextSpans]_vars

\* The formatting of a span: its bold, italic, underline, color and
\* fontSize.
Formatting(span) ==
    [bold |-> Has(span, "bold") /\ span.bold,
     italic |-> Has(span, "italic") /\ span.italic,
     underline |-> Has(span, "underline") /\ span.underline,
     color |-> IF Has(span, "color") THEN span.color ELSE <<>>,
     fontSize |-> IF Has(span, "fontSize") THEN span.fontSize ELSE ""]

\* The positions where a run of identically formatted spans starts.
RunStarts(spans) ==
    {i \in 1..Len(spans) : i = 1 \/ Formatting(spans[i]) # Formatting(spans[i - 1])}

\* The start of the k-th run.
RunStart(spans, k) ==
    CHOOSE i \in RunStarts(spans) : Cardinality({j \in RunStarts(spans) : j <= i}) = k

\* The last position of the run that starts at i.
RunEnd(spans, i) ==
    CHOOSE j \in i..Len(spans) :
        /\ \A k \in i..j : k \notin RunStarts(spans) \/ k = i
        /\ j = Len(spans) \/ (j + 1) \in RunStarts(spans)

\* The texts of the spans from i to j, concatenated in order.
TextOf(spans, i, j) == Concat([k \in 1..(j - i + 1) |-> spans[i + k - 1].text])

\* C5: mergeAdjacentSpans yields one span per run of consecutive spans with
\* identical bold, italic, underline, color and fontSize, in order, with
\* the formatting of the run and the concatenation of its texts; no two
\* adjacent spans of the output have identical formatting, and the texts of
\* the output concatenate to the texts of the input.
C5_RunsCollapse ==
    pc = "merged"
        => (/\ Len(result) = Cardinality(RunStarts(arg))
            /\ \A k \in 1..Len(result) :
                  /\ Formatting(result[k]) = Formatting(arg[RunStart(arg, k)])
                  /\ result[k].text = TextOf(arg, RunStart(arg, k), RunEnd(arg, RunStart(arg, k)))
            /\ \A k \in 1..(Len(result) - 1) : Formatting(result[k]) # Formatting(result[k + 1])
            /\ TextOf(result, 1, Len(result)) = TextOf(arg, 1, Len(arg)))

\* C5 (reached): a run of two identically formatted spans followed by a
\* span of another formatting has been merged into two spans.
C5_RunCollapsed ==
    /\ pc = "merged"
    /\ Len(arg) = 3
    /\ Formatting(arg[1]) = Formatting(arg[2])
    /\ Formatting(arg[2]) # Formatting(arg[3])
    /\ Len(result) = 2
    /\ result[1].text = arg[1].text \o arg[2].text

----------------------------------------------------------------------------
(* The length normalisers cssLengthToCm and pxToCm on their own.           *)

MaxNumeral == 4

NumeralChars == {"0", "1", ".", "-"}

Numerals == UNION {[1..n -> NumeralChars] : n \in 1..MaxNumeral}

Units ==
    {<<>>, <<"p", "x">>, <<"p", "t">>, <<"i", "n">>, <<"m", "m">>, <<"c", "m">>, <<"e", "m">>,
     <<"%">>, <<"P", "X">>, <<" ", "c", "m", " ">>}

\* The strings cssLengthToCm is applied to: a numeral and a unit, and the
\* empty string.
LengthStrings == {numeral \o unit : numeral \in Numerals, unit \in Units} \cup {<<>>}

\* The numbers pxToCm is applied to.
PixelNumbers ==
    {Num(n, d) : n \in -1..2, d \in {1, 1000}} \cup {NaN, Inf(1), Inf(-1)}

InitLength ==
    /\ \/ pc = "string" /\ arg \in LengthStrings
       \/ pc = "number" /\ arg \in PixelNumbers
    /\ result = <<>>
    /\ html = <<>>
    /\ odtDoc = NoDoc
    /\ pending = <<>>
    /\ styles = NewStyleRegistry
    /\ exports = <<>>
    /\ saved = <<>>

CssLengthToCm ==
    /\ pc = "string"
    /\ result' = cssLengthToCm(arg)
    /\ pc' = "cssLengthToCm"
    /\ UNCHANGED <<pending, styles, exports, saved, html, odtDoc, arg>>

PxToCm ==
    /\ pc = "number"
    /\ result' = pxToCm(arg)
    /\ pc' = "pxToCm"
    /\ UNCHANGED <<pending, styles, exports, saved, html, odtDoc, arg>>

NextLength == CssLengthToCm \/ PxToCm

SpecLength == InitLength /\ [][NextLength]_vars

\* C9: pxToCm returns undefined for a zero, negative or non-finite number,
\* and every string cssLengthToCm or pxToCm returns is a strictly positive
\* centimetre string: not negative and not "0.0000cm".
C9_StrictlyPositiveCentimetres ==
    /\ (pc = "pxToCm" /\ (~IsFinite(arg) \/ arg.n <= 0)) => result = Undefined
    /\ (pc \in {"cssLengthToCm", "pxToCm"} /\ result # Undefined)
          => (/\ result[1][1] # "-"
              /\ result[1] # <<"0", ".", "0", "0", "0", "0", "c", "m">>)

----------------------------------------------------------------------------
(* The importer (odtJsonToHtml.ts).  An OdtNode is a record with name,     *)
(* nodeType, attributes, textContent and, when it has them, children and   *)
(* styleApplication (an absent children field stands for undefined and     *)
(* null alike, which the code does not tell apart).  The HTML it yields is *)
(* a string, kept as the sequence of its characters.  A StyleMap is the    *)
(* sequence of its <<key, value>> entries in insertion order.              *)

\* The characters of a string literal.
Chars(s) == [i \in 1..Len(s) |-> SubSeq(s, i, i)]

\* null
Null == [null |-> TRUE]

\* !r?.f for an object-valued field: r.f is missing or null.
Nullish(r, f) == ~Has(r, f) \/ Has(r[f], "null")

\* node.children ?? []
ChildrenOrEmpty(node) == IF Has(node, "children") THEN node.children ELSE <<>>

\* source[key], <<>> when it is not set (or set to '').
Prop(source, key) == IF Has(source, key) THEN source[key] ELSE <<>>

\* style[key], <<>> when it is not set.
StyleGet(style, key) ==
    IF \E i \in 1..Len(style) : style[i][1] = key
    THEN style[CHOOSE i \in 1..Len(style) : style[i][1] = key][2]
    ELSE <<>>

\* style[key] = value: an existing key keeps its place.
StylePut(style, key, value) ==
    IF \E i \in 1..Len(style) : style[i][1] = key
    THEN [i \in 1..Len(style) |-> IF style[i][1] = key THEN <<key, value>> ELSE style[i]]
    ELSE Append(style, <<key, value>>)

\* array.join(sep) for strings kept as character sequences.
JoinChars(parts, sep) ==
    Concat([i \in 1..Len(parts) |-> IF i = 1 THEN parts[i] ELSE sep \o parts[i]])

copyIfPresent(source, target, from, to) ==
    IF Prop(source, from) # <<>> THEN StylePut(target, to, source[from]) ELSE target

\* A run of copyIfPresent calls, one per <<from, to>> pair, in the order of
\* pairs: a key the target has keeps its place and takes the value copied
\* last, a new key is added where it is first copied.
CopyAll(source, target, pairs) ==
    LET present == SelectSeq(pairs, LAMBDA p : Prop(source, p[1]) # <<>>)
        copied(to) == \E i \in 1..Len(present) : present[i][2] = to
        last(to) ==
            source[present[CHOOSE i \in 1..Len(present) :
                               /\ present[i][2] = to
                               /\ \A j \in (i + 1)..Len(present) : present[j][2] # to][1]]
        added ==
            SelectSeq([i \in 1..Len(present) |-> i],
                      LAMBDA i : /\ \A k \in 1..Len(target) : target[k][1] # present[i][2]
                                 /\ \A j \in 1..(i - 1) : present[j][2] # present[i][2])
    IN [k \in 1..Len(target) |->
           IF copied(target[k][1]) THEN <<target[k][1], last(target[k][1])>> ELSE target[k]]
       \o [n \in 1..Len(added) |-> <<present[added[n]][2], last(present[added[n]][2])>>]

\* getResolvedProperties falling back, for a family without an entry, on the
\* entry of any family that has one.
getResolvedPropertiesAnyFamily(node, key) ==
    IF Nullish(node, "styleApplication") THEN EmptyObj
    ELSE IF Nullish(node.styleApplication, "resolvedProperties") THEN EmptyObj
    ELSE LET resolved == node.styleApplication.resolvedProperties
             present == {f \in DOMAIN resolved : ~Has(resolved[f], "null")}
             family == IF key \in present THEN key ELSE CHOOSE f \in present : TRUE
         IN IF present = {} THEN EmptyObj
            ELSE [k \in {q \in DOMAIN resolved[family] : resolved[family][q] # <<>>} |->
                     resolved[family][k]]

\* getResolvedProperties: {} when styleApplication, resolvedProperties or the
\* family entry is missing or null, else the entry's non-empty string values.
getResolvedProperties(node, key) ==
    IF Nullish(node, "styleApplication") THEN EmptyObj
    ELSE IF Nullish(node.styleApplication, "resolvedProperties") THEN EmptyObj
    ELSE IF Nullish(node.styleApplication.resolvedProperties, key) THEN EmptyObj
    ELSE LET entry == node.styleApplication.resolvedProperties[key]
         IN [k \in {p \in DOMAIN entry : entry[p] # <<>>} |-> entry[k]]

mapParagraphProperties(source) ==
    CopyAll(source, <<>>,
        <<<<"fo:text-align", "text-align">>, <<"fo:margin-left", "margin-left">>,
          <<"fo:margin-right", "margin-right">>, <<"fo:margin-top", "margin-top">>,
          <<"fo:margin-bottom", "margin-bottom">>, <<"fo:text-indent", "text-indent">>,
          <<"fo:line-height", "line-height">>, <<"fo:padding", "padding">>,
          <<"fo:padding-left", "padding-left">>, <<"fo:padding-right", "padding-right">>,
          <<"fo:padding-top", "padding-top">>, <<"fo:padding-bottom", "padding-bottom">>,
          <<"fo:border", "border">>, <<"fo:border-left", "border-left">>,
          <<"fo:border-right", "border-right">>, <<"fo:border-top", "border-top">>,
          <<"fo:border-bottom", "border-bottom">>,
          <<"fo:background-color", "background-color">>,
          <<"style:writing-mode", "writing-mode">>,
          <<"style:vertical-align", "vertical-align">>>>)

\* mapTextProperties up to the font families: the copies, with
\* style:font-size-asian standing in for a missing fo:font-size.
\* (loext:opacity, a floating-point division, is outside the modelled
\* properties.)
TextCopies(source) ==
    LET sized == CopyAll(source, <<>>,
                     <<<<"fo:font-weight", "font-weight">>, <<"fo:font-style", "font-style">>,
                       <<"fo:font-size", "font-size">>>>)
    IN CopyAll(source,
           IF StyleGet(sized, "font-size") = <<>>
           THEN copyIfPresent(source, sized, "style:font-size-asian", "font-size")
           ELSE sized,
           <<<<"fo:color", "color">>, <<"fo:letter-spacing", "letter-spacing">>,
             <<"fo:text-transform", "text-transform">>,
             <<"fo:background-color", "background-color">>,
             <<"style:text-outline", "text-outline">>>>)

\* The font-family of mapTextProperties: the first font name that is set.
TextFamilies(source, mapped) ==
    LET families == SelectSeq(<<Prop(source, "style:font-name"),
                                Prop(source, "style:font-name-asian"),
                                Prop(source, "style:font-name-complex")>>,
                              LAMBDA f : f # <<>>)
    IN IF families # <<>> THEN StylePut(mapped, "font-family", families[1]) ELSE mapped

\* The text-decoration-line of mapTextProperties.
TextDecorations(source, mapped) ==
    LET on(key) == Prop(source, key) # <<>> /\ ToLowerCase(source[key]) # Chars("none")
        decorations ==
            (IF on("style:text-underline-style") THEN <<Chars("underline")>> ELSE <<>>)
            \o (IF on("style:text-line-through-style") THEN <<Chars("line-through")>> ELSE <<>>)
            \o (IF on("style:text-overline-style") THEN <<Chars("overline")>> ELSE <<>>)
    IN IF decorations # <<>>
       THEN StylePut(mapped, "text-decoration-line", JoinChars(decorations, <<" ">>))
       ELSE mapped

\* The underline colour and width of mapTextProperties.
TextUnderline(source, mapped) ==
    LET coloured ==
            IF Prop(source, "style:text-underline-color") # <<>>
               /\ ToLowerCase(source["style:text-underline-color"]) # Chars("font-color")
            THEN StylePut(mapped, "text-decoration-color", source["style:text-underline-color"])
            ELSE mapped
    IN copyIfPresent(source, coloured, "style:text-underline-width", "text-decoration-thickness")

\* The vertical-align of mapTextProperties.
TextPosition(source, mapped) ==
    IF Prop(source, "style:text-position") = <<>> THEN mapped
    ELSE IF Includes(ToLowerCase(source["style:text-position"]), Chars("super"))
    THEN StylePut(mapped, "vertical-align", Chars("super"))
    ELSE IF Includes(ToLowerCase(source["style:text-position"]), Chars("sub"))
    THEN StylePut(mapped, "vertical-align", Chars("sub"))
    ELSE mapped

mapTextProperties(source) ==
    TextPosition(source,
        TextUnderline(source, TextDecorations(source, TextFamilies(source, TextCopies(source)))))

\* The table:align of mapTableProperties.
TableAlign(source, mapped) ==
    IF Prop(source, "table:align") = Chars("center")
    THEN StylePut(StylePut(mapped, "margin-left", Chars("auto")), "margin-right", Chars("auto"))
    ELSE IF Prop(source, "table:align") = Chars("right")
    THEN StylePut(mapped, "margin-left", Chars("auto"))
    ELSE mapped

\* The table:border-model of mapTableProperties.
TableBorderModel(source, mapped) ==
    IF Prop(source, "table:border-model") = <<>> THEN mapped
    ELSE StylePut(mapped, "border-collapse",
             IF source["table:border-model"] = Chars("collapsing")
             THEN Chars("collapse") ELSE Chars("separate"))

mapTableProperties(source) ==
    TableAlign(source, TableBorderModel(source,
        CopyAll(source, <<>>,
            <<<<"style:width", "width">>, <<"fo:margin-left", "margin-left">>,
              <<"fo:margin-right", "margin-right">>, <<"fo:margin-top", "margin-top">>,
              <<"fo:margin-bottom", "margin-bottom">>, <<"fo:border", "border">>,
              <<"fo:border-top", "border-top">>, <<"fo:border-right", "border-right">>,
              <<"fo:border-bottom", "border-bottom">>, <<"fo:border-left", "border-left">>,
              <<"fo:padding", "padding">>>>)))

mapTableColumnProperties(source) ==
    copyIfPresent(source, <<>>, "style:column-width", "width")

mapTableRowProperties(source) ==
    LET mapped == copyIfPresent(source, <<>>, "style:min-row-height", "min-height")
    IN IF ToLowerCase(Prop(source, "fo:keep-together")) = Chars("always")
       THEN StylePut(mapped, "page-break-inside", Chars("avoid"))
       ELSE mapped

mapTableCellProperties(source) ==
    CopyAll(source, <<>>,
        <<<<"fo:border", "border">>, <<"fo:border-left", "border-left">>,
          <<"fo:border-right", "border-right">>, <<"fo:border-top", "border-top">>,
          <<"fo:border-bottom", "border-bottom">>, <<"fo:padding", "padding">>,
          <<"fo:padding-left", "padding-left">>, <<"fo:padding-right", "padding-right">>,
          <<"fo:padding-top", "padding-top">>, <<"fo:padding-bottom", "padding-bottom">>,
          <<"fo:background-color", "background-color">>,
          <<"style:vertical-align", "vertical-align">>>>)

RECURSIVE StylePutAll(_, _)
\* One style map of combineStyles: its non-empty entries, in order.
StylePutAll(combined, style) ==
    IF style = <<>> THEN combined
    ELSE StylePutAll(IF Head(style)[2] # <<>>
                     THEN StylePut(combined, Head(style)[1], Head(style)[2])
                     ELSE combined,
                     Tail(style))

\* combineStyles(a, b); combineStyles(a) is combineStyles(a, {}).
combineStyles(a, b) == StylePutAll(StylePutAll(<<>>, a), b)

\* value.replace(/"/g, "'")
sanitizeCssValue(value) == [i \in 1..Len(value) |-> IF value[i] = "\"" THEN "'" ELSE value[i]]

\* styleMapToAttr: ' style="k: v; k2: v2"', '' for a map without entries.
styleMapToAttr(style) ==
    LET entries == SelectSeq(style, LAMBDA e : e[2] # <<>>)
    IN IF entries = <<>> THEN <<>>
       ELSE Chars(" style=\"")
            \o JoinChars([i \in 1..Len(entries) |->
                             Chars(entries[i][1]) \o Chars(": ")
                             \o sanitizeCssValue(entries[i][2])],
                         Chars("; "))
            \o Chars("\"")

\* escapeHtml: & < > " ' become entities.
escapeHtml(text) ==
    Concat([i \in 1..Len(text) |->
        CASE text[i] = "&" -> Chars("&amp;")
          [] text[i] = "<" -> Chars("&lt;")
          [] text[i] = ">" -> Chars("&gt;")
          [] text[i] = "\"" -> Chars("&quot;")
          [] text[i] = "'" -> Chars("&#39;")
          [] OTHER -> <<text[i]>>])

\* escapeHtmlAttr: escapeHtml, then the grave accent as an entity (the grave
\* accent is outside the modelled alphabet).
escapeHtmlAttr(text) == escapeHtml(text)

\* `<tag attrs>inner</tag>`
HtmlElement(tag, attrs, inner) ==
    (Chars("<") \o Chars(tag) \o attrs \o Chars(">"))
    \o (inner \o (Chars("</") \o Chars(tag) \o Chars(">")))

\* content === '' ? '<br />' : content
OrBreak(content) == IF content = <<>> THEN Chars("<br />") ELSE content

\* string.repeat(count)
Repeat(cs, count) == Concat([i \in 1..count |-> cs])

\* raw ? parseInt(raw, 10) || 1 : 1, then Math.max(..., 1)
CountAttr(node, name) ==
    IF Prop(node.attributes, name) = <<>> \/ IsNaN(ParseInt(node.attributes[name])) THEN 1
    ELSE Max(IF ParseInt(node.attributes[name]).n = 0 THEN 1
             ELSE ParseInt(node.attributes[name]).n, 1)

\* convertTextSpace
convertTextSpace(node) == Repeat(Chars("&nbsp;"), CountAttr(node, "text:c"))

\* getSpanAttr(node.attributes?.[from], name)
getSpanAttr(node, from, name) ==
    IF Prop(node.attributes, from) = <<>> \/ IsNaN(ParseInt(node.attributes[from])) THEN <<>>
    ELSE IF ParseInt(node.attributes[from]).n <= 1 THEN <<>>
    ELSE Chars(" ") \o Chars(name) \o Chars("=\"")
         \o IntChars(ParseInt(node.attributes[from]).n) \o Chars("\"")

\* convertImage
convertImage(node) ==
    LET href == Prop(node.attributes, "xlink:href")
        mime == Prop(node.attributes, "draw:mime-type")
        attrParts ==
            <<Chars("data-odt-src=\"") \o escapeHtmlAttr(href) \o Chars("\"")>>
            \o (IF href # <<>>
                THEN <<Chars("src=\"") \o escapeHtmlAttr(href) \o Chars("\"")>> ELSE <<>>)
            \o (IF mime # <<>>
                THEN <<Chars("data-odt-mime=\"") \o escapeHtmlAttr(mime) \o Chars("\"")>>
                ELSE <<>>)
    IN Chars("<img ") \o JoinChars(attrParts, Chars(" ")) \o Chars(" />")

\* One <col /> run of convertTableColumns.
ColumnHtml(column) ==
    Repeat(Chars("<col")
           \o styleMapToAttr(combineStyles(
                  mapTableColumnProperties(
                      getResolvedProperties(column, "style:table-column-properties")), <<>>))
           \o Chars(" />"),
           CountAttr(column, "table:number-columns-repeated"))

\* convertTableColumns
convertTableColumns(columns) ==
    IF columns = <<>> THEN <<>>
    ELSE Chars("<colgroup>")
         \o Concat([i \in 1..Len(columns) |-> ColumnHtml(columns[i])])
         \o Chars("</colgroup>")

RECURSIVE isBlockLevelParagraphChild(_)
isBlockLevelParagraphChild(node) ==
    IF node.name = "table:table" THEN TRUE
    ELSE IF node.name = "draw:text-box" THEN TRUE
    ELSE IF node.name = "draw:frame"
    THEN \E i \in 1..Len(ChildrenOrEmpty(node)) :
             isBlockLevelParagraphChild(ChildrenOrEmpty(node)[i])
    ELSE FALSE

\* flushInline pushing the inline content without the <p> around it.
flushInlineUnwrapped(styleAttr, segments, inlineBuffer) ==
    IF inlineBuffer = <<>> THEN segments
    ELSE Append(segments, OrBreak(Concat(inlineBuffer)))

\* flushInline of convertParagraph: the segments after it.
flushInline(styleAttr, segments, inlineBuffer) ==
    IF inlineBuffer = <<>> THEN segments
    ELSE Append(segments, HtmlElement("p", styleAttr, OrBreak(Concat(inlineBuffer))))

\* if (blockHtml) segments.push(blockHtml)
PushTruthy(segments, blockHtml) ==
    IF blockHtml # <<>> THEN Append(segments, blockHtml) ELSE segments

\* The names nodeToHtml drops with everything below them.
DroppedNames ==
    {"table:covered-table-cell", "text:sequence-decls", "text:sequence-decl",
     "text:bookmark", "text:bookmark-start", "text:bookmark-end"}

RECURSIVE nodesToHtml(_), nodeToHtml(_), convertParagraph(_), ChildHtmls(_),
          ParagraphSegments(_, _, _, _, _),
          convertSpan(_), convertTable(_), convertTableColumnsGroup(_),
          convertTableHeaderRows(_), convertTableRow(_, _), convertTableCell(_, _)

\* nodesToHtml(nodes) for nodes ?? []
nodesToHtml(nodes) == Concat([i \in 1..Len(nodes) |-> nodeToHtml(nodes[i])])

\* nodeToHtml: the two early returns, then the switch on node.name; the
\* arms are tried in this order.
nodeToHtml(node) ==
    CASE Has(node, "null") -> <<>>
      [] node.nodeType = "TEXT" \/ node.name = "#text" ->
             escapeHtml(IF Has(node, "textContent") THEN node.textContent ELSE <<>>)
      [] node.name = "text:p" -> convertParagraph(node)
      [] node.name = "text:span" -> convertSpan(node)
      [] node.name = "text:s" -> convertTextSpace(node)
      [] node.name = "table:table" -> convertTable(node)
      [] node.name = "table:table-header-rows" -> convertTableHeaderRows(node)
      [] node.name = "table:table-row" -> convertTableRow(node, "td")
      [] node.name = "table:table-cell" -> convertTableCell(node, "td")
      [] node.name \in {"draw:frame", "draw:text-box"} -> nodesToHtml(ChildrenOrEmpty(node))
      [] node.name = "draw:image" -> convertImage(node)
      [] node.name \in DroppedNames -> <<>>
      [] OTHER -> nodesToHtml(ChildrenOrEmpty(node))

\* nodeToHtml(child) of every child, which the loop of convertParagraph
\* computes as it reaches the child.
ChildHtmls(children) == [i \in 1..Len(children) |-> nodeToHtml(children[i])]

\* The for loop of convertParagraph and the flushInline after it; htmls[i]
\* is nodeToHtml(children[i]).
ParagraphSegments(children, htmls, styleAttr, segments, inlineBuffer) ==
    IF children = <<>> THEN flushInline(styleAttr, segments, inlineBuffer)
    ELSE IF isBlockLevelParagraphChild(Head(children))
    THEN Strict(<<htmls, segments, inlineBuffer>>,
             ParagraphSegments(Tail(children), Tail(htmls), styleAttr,
                 PushTruthy(flushInline(styleAttr, segments, inlineBuffer), Head(htmls)),
                 <<>>))
    ELSE Strict(<<htmls, segments, inlineBuffer>>,
             ParagraphSegments(Tail(children), Tail(htmls), styleAttr, segments,
                 Append(inlineBuffer, Head(htmls))))

\* The paragraph style attribute of convertParagraph.
ParagraphStyleAttr(node) ==
    styleMapToAttr(combineStyles(
        mapParagraphProperties(getResolvedProperties(node, "style:paragraph-properties")),
        mapTextProperties(getResolvedProperties(node, "style:text-properties"))))

\* The return of convertParagraph for a paragraph with children.
ParagraphHtml(children, styleAttr, segments) ==
    IF segments = <<>> THEN HtmlElement("p", styleAttr, OrBreak(nodesToHtml(children)))
    ELSE Concat(segments)

convertParagraph(node) ==
    IF ChildrenOrEmpty(node) = <<>>
    THEN HtmlElement("p", ParagraphStyleAttr(node), Chars("<br />"))
    ELSE ParagraphHtml(ChildrenOrEmpty(node), ParagraphStyleAttr(node),
             ParagraphSegments(ChildrenOrEmpty(node), ChildHtmls(ChildrenOrEmpty(node)),
                 ParagraphStyleAttr(node), <<>>, <<>>))

\* The return of convertSpan.
SpanHtml(styleAttr, content) ==
    IF styleAttr = <<>> /\ content # <<>> THEN content
    ELSE HtmlElement("span", styleAttr, IF content = <<>> THEN Chars("&nbsp;") ELSE content)

convertSpan(node) ==
    SpanHtml(styleMapToAttr(combineStyles(
                 mapTextProperties(getResolvedProperties(node, "style:text-properties")), <<>>)),
             nodesToHtml(ChildrenOrEmpty(node)))

\* children.filter(child => child.name === name)
Named(children, name) == SelectSeq(children, LAMBDA child : child.name = name)

\* The tbody of convertTable.
TableBody(bodyRows) ==
    IF bodyRows = <<>> THEN <<>>
    ELSE Chars("<tbody>")
         \o Concat([i \in 1..Len(bodyRows) |-> convertTableRow(bodyRows[i], "td")])
         \o Chars("</tbody>")

\* convertTable: the columns, header groups and rows among the children;
\* a child of any other name is left out.
convertTable(node) ==
    HtmlElement("table",
        Chars(" class=\"tiptap-table\"")
        \o styleMapToAttr(combineStyles(
               mapTableProperties(getResolvedProperties(node, "style:table-properties")), <<>>)),
        convertTableColumns(Named(ChildrenOrEmpty(node), "table:table-column"))
        \o convertTableColumnsGroup(Named(ChildrenOrEmpty(node), "table:table-header-rows"))
        \o TableBody(Named(ChildrenOrEmpty(node), "table:table-row")))

\* `<thead>rows</thead>`, '' without rows.
HeadHtml(rows) == IF rows = <<>> THEN <<>> ELSE Chars("<thead>") \o rows \o Chars("</thead>")

\* convertTableColumnsGroup: every child of every header group as a row.
convertTableColumnsGroup(groups) ==
    HeadHtml(Concat([g \in 1..Len(groups) |->
                 Concat([i \in 1..Len(ChildrenOrEmpty(groups[g])) |->
                     convertTableRow(ChildrenOrEmpty(groups[g])[i], "th")])]))

convertTableHeaderRows(node) ==
    HeadHtml(Concat([i \in 1..Len(ChildrenOrEmpty(node)) |->
                 convertTableRow(ChildrenOrEmpty(node)[i], "th")]))

\* One child of a row in convertTableRow.
RowChildHtml(child, cellTag) ==
    IF child.name = "table:table-cell" THEN convertTableCell(child, cellTag)
    ELSE IF child.name = "table:covered-table-cell" THEN <<>>
    ELSE nodeToHtml(child)

convertTableRow(node, cellTag) ==
    HtmlElement("tr",
        styleMapToAttr(combineStyles(
            mapTableRowProperties(getResolvedProperties(node, "style:table-row-properties")),
            <<>>)),
        Concat([i \in 1..Len(ChildrenOrEmpty(node)) |->
                   RowChildHtml(ChildrenOrEmpty(node)[i], cellTag)]))

convertTableCell(node, tag) ==
    HtmlElement(tag,
        styleMapToAttr(combineStyles(
            mapTableCellProperties(getResolvedProperties(node, "style:table-cell-properties")),
            mapTextProperties(getResolvedProperties(node, "style:text-properties"))))
        \o getSpanAttr(node, "table:number-columns-spanned", "colspan")
        \o getSpanAttr(node, "table:number-rows-spanned", "rowspan"),
        OrBreak(nodesToHtml(ChildrenOrEmpty(node))))

RECURSIVE FindIn(_, _), findNodeByName(_, _)
\* The for loop of findNodeByName: the first child with a match below it.
FindIn(children, targetName) ==
    IF children = <<>> THEN Null
    ELSE IF ~Has(findNodeByName(Head(children), targetName), "null")
    THEN findNodeByName(Head(children), targetName)
    ELSE FindIn(Tail(children), targetName)

\* findNodeByName: the first node of that name in document order, or null.
findNodeByName(node, targetName) ==
    IF node.name = targetName THEN node ELSE FindIn(ChildrenOrEmpty(node), targetName)

\* The conversion of the office:text node found, '' when there is none.
OfficeTextHtml(officeText) ==
    IF Has(officeText, "null") THEN <<>> ELSE nodesToHtml(ChildrenOrEmpty(officeText))

\* odtJsonToHtml: '' for a null document or one without content.
odtJsonToHtml(document) ==
    IF Has(document, "null") \/ Nullish(document, "content") THEN <<>>
    ELSE OfficeTextHtml(findNodeByName(document.content, "office:text"))

----------------------------------------------------------------------------
(* DOMParser.parseFromString(html, 'text/html') for markup whose elements  *)
(* are properly nested, as odtJsonToHtml writes it: tags with double-      *)
(* quoted attributes, void elements, character references.  (The repairs   *)
(* the HTML tree builder makes to ill-nested markup are not modelled.)     *)

\* U+00A0, the character &nbsp; stands for.
NBSP == "<U+00A0>"

CharacterReferences ==
    <<<<Chars("&amp;"), "&">>, <<Chars("&lt;"), "<">>, <<Chars("&gt;"), ">">>,
      <<Chars("&quot;"), "\"">>, <<Chars("&#39;"), "'">>, <<Chars("&nbsp;"), NBSP>>>>

\* Elements that never have children.
VoidTags == {"BR", "IMG", "COL", "HR"}

\* The first index from i on whose character is in stops, Len(cs) + 1 when
\* there is none.
Find(cs, i, stops) ==
    IF \E j \in i..Len(cs) : cs[j] \in stops
    THEN CHOOSE j \in i..Len(cs) : cs[j] \in stops /\ \A k \in i..(j - 1) : cs[k] \notin stops
    ELSE Len(cs) + 1

RECURSIVE DecodeEntities(_, _)
\* The text from index i on with every character reference replaced; the
\* characters up to the next "&" are taken as they are.
DecodeEntities(cs, i) ==
    IF i > Len(cs) THEN <<>>
    ELSE IF \E k \in 1..Len(CharacterReferences) : StartsAt(cs, i, CharacterReferences[k][1])
    THEN LET ref == CharacterReferences[
                        CHOOSE k \in 1..Len(CharacterReferences) :
                            StartsAt(cs, i, CharacterReferences[k][1])]
         IN <<ref[2]>> \o DecodeEntities(cs, i + Len(ref[1]))
    ELSE SubSeq(cs, i, Find(cs, i + 1, {"&"}) - 1) \o DecodeEntities(cs, Find(cs, i + 1, {"&"}))

UpperChar(c) ==
    IF \E k \in 1..Len(LowerCase) : LowerCase[k] = c
    THEN UpperCase[CHOOSE k \in 1..Len(LowerCase) : LowerCase[k] = c]
    ELSE c

\* Element.tagName of an HTML element: upper case.
TagName(cs) == Str([i \in 1..Len(cs) |-> UpperChar(cs[i])])

RECURSIVE TagAttributes(_, _, _), AttributeAt(_, _, _, _)
\* The attributes of a start tag read from index j on: [attributes, next],
\* next the index after the closing ">".
TagAttributes(cs, j, attrs) ==
    IF j > Len(cs) THEN [attributes |-> attrs, next |-> j]
    ELSE IF cs[j] = ">" THEN [attributes |-> attrs, next |-> j + 1]
    ELSE IF cs[j] \in {" ", "/"} THEN TagAttributes(cs, j + 1, attrs)
    ELSE AttributeAt(cs, j, Find(cs, j, {"=", " ", ">", "/"}), attrs)

\* The attribute whose name runs from j to e - 1; the first attribute of a
\* name wins.
AttributeAt(cs, j, e, attrs) ==
    IF e + 1 <= Len(cs) /\ cs[e] = "=" /\ cs[e + 1] = "\""
    THEN TagAttributes(cs, Find(cs, e + 2, {"\""}) + 1,
             attrs @@ (Str(ToLowerCase(SubSeq(cs, j, e - 1)))
                       :> DecodeEntities(SubSeq(cs, e + 2, Find(cs, e + 2, {"\""}) - 1), 1)))
    ELSE IF e <= Len(cs) /\ cs[e] = "="
    THEN TagAttributes(cs, Find(cs, e + 1, {" ", ">"}),
             attrs @@ (Str(ToLowerCase(SubSeq(cs, j, e - 1)))
                       :> DecodeEntities(SubSeq(cs, e + 1, Find(cs, e + 1, {" ", ">"}) - 1), 1)))
    ELSE TagAttributes(cs, e, attrs @@ (Str(ToLowerCase(SubSeq(cs, j, e - 1))) :> <<>>))

\* The start tag token of a tag whose attributes r have been read.
StartTag(tagName, r) == [type |-> "start", tagName |-> tagName, attributes |-> r.attributes]

\* The indexes at which a token starts: every "<", and every character that
\* follows a ">" or opens the markup.  (escapeHtml leaves "<" and ">" in the
\* markup as tag delimiters only, odtJsonToHtml.ts 474-481.)
TokenStarts(cs) == {i \in 1..Len(cs) : cs[i] = "<" \/ i = 1 \/ cs[i - 1] = ">"}

\* The n-th smallest member of a set of integers.
NthSmallest(S, n) == CHOOSE s \in S : Cardinality({t \in S : t < s}) = n - 1

\* The token that starts at index i: a start tag, an end tag or text.
TokenAt(cs, i) ==
    IF StartsAt(cs, i, Chars("</"))
    THEN [type |-> "end", tagName |-> TagName(SubSeq(cs, i + 2, Find(cs, i, {">"}) - 1))]
    ELSE IF cs[i] = "<"
    THEN StartTag(TagName(SubSeq(cs, i + 1, Find(cs, i, {" ", "/", ">"}) - 1)),
                  TagAttributes(cs, Find(cs, i, {" ", "/", ">"}), EmptyObj))
    ELSE [type |-> "text",
          textContent |-> DecodeEntities(SubSeq(cs, i, Find(cs, i, {"<"}) - 1), 1)]

\* The tokens that start at the indexes of starts, in the order of the markup.
TokensAt(cs, starts) ==
    [n \in 1..Cardinality(starts) |-> TokenAt(cs, NthSmallest(starts, n))]

\* The tokens of the markup: start tags, end tags, text.
Tokens(cs) == TokensAt(cs, TokenStarts(cs))

\* Element.classList: the class attribute split at spaces.
ClassList(attributes) ==
    IF Has(attributes, "class")
    THEN [i \in 1..Len(SelectSeq(Split(attributes.class, " "), LAMBDA c : c # <<>>)) |->
             Str(SelectSeq(Split(attributes.class, " "), LAMBDA c : c # <<>>)[i])]
    ELSE <<>>

\* The element of a start tag token with its child nodes.
ElementOf(token, childNodes) ==
    [nodeType |-> ELEMENT_NODE, tagName |-> token.tagName,
     classList |-> ClassList(token.attributes), attributes |-> token.attributes,
     childNodes |-> childNodes]

\* A start tag that opens an element with content.
Opens(token) == token.type = "start" /\ token.tagName \notin VoidTags

\* The number of elements open after each token, 0 before the first one.
OpenDepths(tokens) ==
    [j \in 0..Len(tokens) |->
        Cardinality({k \in 1..j : Opens(tokens[k])})
        - Cardinality({k \in 1..j : tokens[k].type = "end"})]

\* The index of the end tag that closes the element opened at index i,
\* Len(tokens) + 1 when the markup ends first.
CloseOf(tokens, depths, i) ==
    IF \E j \in (i + 1)..Len(tokens) : depths[j] < depths[i]
    THEN CHOOSE j \in (i + 1)..Len(tokens) :
             depths[j] < depths[i] /\ \A k \in (i + 1)..(j - 1) : depths[k] >= depths[i]
    ELSE Len(tokens) + 1

\* The indexes in lo..hi of the tokens that start a node of the element whose
\* content lo..hi is, and not a node of one of its descendants.
ChildStarts(tokens, depths, lo, hi) ==
    {k \in lo..hi : tokens[k].type # "end" /\ depths[k - 1] = depths[lo - 1]}

RECURSIVE NodesAt(_, _, _), NodeAt(_, _, _)
\* The nodes that start at the indexes of starts, in the order of the markup.
NodesAt(tokens, depths, starts) ==
    [n \in 1..Cardinality(starts) |-> NodeAt(tokens, depths, NthSmallest(starts, n))]

\* The node that starts at index k: a text node, or an element with the
\* nodes of its content.
NodeAt(tokens, depths, k) ==
    IF tokens[k].type = "text"
    THEN [nodeType |-> TEXT_NODE, textContent |-> tokens[k].textContent]
    ELSE IF tokens[k].tagName \in VoidTags THEN ElementOf(tokens[k], <<>>)
    ELSE ElementOf(tokens[k],
             NodesAt(tokens, depths,
                 ChildStarts(tokens, depths, k + 1, CloseOf(tokens, depths, k) - 1)))

\* The nodes of the token sequence, the markup's top level.
BuildNodes(tokens, depths) ==
    Strict(depths,
        NodesAt(tokens, depths, ChildStarts(tokens, depths, 1, CloseOf(tokens, depths, 0) - 1)))

\* The tree builder run on a token sequence.
BuildTree(tokens) == Strict(tokens, BuildNodes(tokens, OpenDepths(tokens)))

\* new DOMParser().parseFromString(htmlString, 'text/html').body.childNodes
parseFromString(htmlString) == BuildTree(Tokens(htmlString))

----------------------------------------------------------------------------
(* ODT JSON documents.                                                     *)

OdtText(textContent) ==
    [nodeType |-> "TEXT", name |-> "#text", attributes |-> EmptyObj,
     textContent |-> textContent]

OdtElement(name, attributes, children) ==
    [nodeType |-> "ELEMENT", name |-> name, attributes |-> attributes,
     textContent |-> <<>>, children |-> children]

\* node with styleApplication.resolvedProperties set.
Resolved(node, resolvedProperties) ==
    node @@ [styleApplication |-> [resolvedProperties |-> resolvedProperties]]

\* A document whose office:text holds the given nodes.
OdtDocument(nodes) ==
    [content |->
        OdtElement("office:document-content", EmptyObj,
            <<OdtElement("office:automatic-styles", EmptyObj, <<>>),
              OdtElement("office:body", EmptyObj,
                  <<OdtElement("office:text", EmptyObj, nodes)>>)>>)]

\* <text:p>Hello</text:p>
nHello == OdtElement("text:p", EmptyObj, <<OdtText(Chars("Hello"))>>)

\* The object with the given <<key, value>> entries.
Obj(entries) ==
    [k \in {entries[i][1] : i \in 1..Len(entries)} |->
        entries[CHOOSE i \in 1..Len(entries) : entries[i][1] = k][2]]

\* <text:span>text</text:span> with the given text properties.
OdtSpan(text, textProperties) ==
    Resolved(OdtElement("text:span", EmptyObj, <<OdtText(Chars(text))>>),
             Obj(<<<<"style:text-properties", Obj(textProperties)>>>>))

\* <text:p/>
nEmptyP == OdtElement("text:p", EmptyObj, <<>>)

\* A centred paragraph: a bold red 14pt span, an underlined span, a span
\* without properties, an empty span, two spaces and the text `a<b & "c"`.
nStyled ==
    Resolved(
        OdtElement("text:p", EmptyObj,
            <<OdtSpan("B", <<<<"fo:font-weight", Chars("bold")>>, <<"fo:color", Chars("#ff0000")>>,
                             <<"fo:font-size", Chars("14pt")>>, <<"fo:font-style", <<>>>>>>),
              OdtSpan("U", <<<<"style:text-underline-style", Chars("solid")>>,
                             <<"style:text-line-through-style", Chars("none")>>>>),
              OdtSpan("n", <<>>),
              OdtElement("text:span", EmptyObj, <<>>),
              OdtElement("text:s", Obj(<<<<"text:c", Chars("2")>>>>), <<>>),
              OdtText(Chars("a<b & \"c\""))>>),
        Obj(<<<<"style:paragraph-properties", Obj(<<<<"fo:text-align", Chars("center")>>>>)>>>>))

\* Paragraphs whose style data is missing at each level: styleApplication
\* null, resolvedProperties missing, resolvedProperties null, the families
\* of a paragraph missing or null.
nNullStyle == nHello @@ [styleApplication |-> Null]
nNoResolved == nHello @@ [styleApplication |-> EmptyObj]
nNullResolved == nHello @@ [styleApplication |-> [resolvedProperties |-> Null]]
nOtherFamily ==
    Resolved(nHello,
        Obj(<<<<"style:graphic-properties", Obj(<<<<"fo:border", Chars("none")>>>>)>>,
              <<"style:text-properties", Null>>>>))

\* <text:h>T</text:h><text:list><text:list-item><text:p>i</text:p>
\* <text:a>l<text:span>k</text:span></text:a></text:list-item></text:list>
nHeading == OdtElement("text:h", EmptyObj, <<OdtText(Chars("T"))>>)
nList ==
    OdtElement("text:list", EmptyObj,
        <<OdtElement("text:list-item", EmptyObj,
            <<OdtElement("text:p", EmptyObj, <<OdtText(Chars("i"))>>),
              OdtElement("text:a", EmptyObj,
                  <<OdtText(Chars("l")), OdtSpan("k", <<>>)>>)>>)>>)

\* <table:table-cell><text:p>text</text:p></table:table-cell>
OdtCell(text, attributes) ==
    OdtElement("table:table-cell", attributes,
        <<OdtElement("text:p", EmptyObj, <<OdtText(Chars(text))>>)>>)

\* A table with a repeated column, a header row and a body row whose first
\* cell spans two columns and whose last child is not a cell.
nTable ==
    Resolved(
        OdtElement("table:table", EmptyObj,
            <<OdtElement("table:table-column",
                  Obj(<<<<"table:number-columns-repeated", Chars("2")>>>>), <<>>),
              OdtElement("table:table-header-rows", EmptyObj,
                  <<OdtElement("table:table-row", EmptyObj, <<OdtCell("h", EmptyObj)>>)>>),
              OdtElement("table:table-row", EmptyObj,
                  <<OdtCell("c", Obj(<<<<"table:number-columns-spanned", Chars("2")>>,
                                       <<"table:number-rows-spanned", Chars("1")>>>>)),
                    OdtElement("table:covered-table-cell", EmptyObj, <<>>),
                    OdtElement("text:soft-page-break", EmptyObj, <<OdtText(Chars("r"))>>)>>)>>),
        Obj(<<<<"style:table-properties",
                Obj(<<<<"style:width", Chars("8cm")>>, <<"table:align", Chars("center")>>>>)>>>>))

\* A table whose rows are wrapped in <table:table-rows>.
nTableRows ==
    OdtElement("table:table", EmptyObj,
        <<OdtElement("table:table-rows", EmptyObj,
            <<OdtElement("table:table-row", EmptyObj, <<OdtCell("w", EmptyObj)>>)>>)>>)

\* <draw:frame><draw:text-box>a table with one cell</draw:text-box></draw:frame>
OdtFrame(text) ==
    OdtElement("draw:frame", EmptyObj,
        <<OdtElement("draw:text-box", EmptyObj,
            <<OdtElement("table:table", EmptyObj,
                <<OdtElement("table:table-row", EmptyObj, <<OdtCell(text, EmptyObj)>>)>>)>>)>>)

\* A paragraph with text, a framed table, text, a table, an image frame and
\* more text.
nMixed ==
    OdtElement("text:p", EmptyObj,
        <<OdtText(Chars("a")), OdtFrame("f"), OdtText(Chars("b")),
          OdtElement("table:table", EmptyObj,
              <<OdtElement("table:table-row", EmptyObj, <<OdtCell("t", EmptyObj)>>)>>),
          OdtElement("draw:frame", EmptyObj,
              <<OdtElement("draw:image", Obj(<<<<"xlink:href", Chars("p.png")>>>>), <<>>)>>),
          OdtText(Chars("c"))>>)

\* A paragraph whose only children are an empty text box and a bookmark.
nBoxOnly ==
    OdtElement("text:p", EmptyObj,
        <<OdtElement("draw:text-box", EmptyObj, <<>>),
          OdtElement("text:bookmark", EmptyObj, <<>>)>>)

\* A paragraph with a framed table anchored inside a span, then a table.
nSpanFrame ==
    OdtElement("text:p", EmptyObj,
        <<OdtElement("text:span", EmptyObj, <<OdtText(Chars("s")), OdtFrame("g")>>),
          OdtElement("table:table", EmptyObj,
              <<OdtElement("table:table-row", EmptyObj, <<OdtCell("u", EmptyObj)>>)>>)>>)

OdtNodes ==
    {nHello, nEmptyP, nStyled, nNullStyle, nNoResolved, nNullResolved, nOtherFamily,
     nHeading, nList, nTable, nTableRows, nMixed, nBoxOnly, nSpanFrame}

MaxOdtNodes == 2

\* The children of office:text.
OdtBodies == UNION {[1..n -> OdtNodes] : n \in 0..MaxOdtNodes}

\* The documents handed to odtJsonToHtml: null, one without content, one
\* with null content, one without an office:text node, and those whose
\* office:text holds up to MaxOdtNodes of the nodes above.
OdtDocuments ==
    {Null, EmptyObj, [content |-> Null],
     [content |-> OdtElement("office:document-content", EmptyObj, <<nHello>>)]}
    \cup {OdtDocument(nodes) : nodes \in OdtBodies}

----------------------------------------------------------------------------
(* Import and re-export: arg is the ODT JSON document, result the HTML     *)
(* odtJsonToHtml returns for it, html the parsed body and odtDoc the       *)
(* document convertHtmlToOdtDoc returns for that HTML.                     *)

InitImport ==
    /\ arg \in OdtDocuments
    /\ pc = "loaded"
    /\ result = <<>>
    /\ html = <<>>
    /\ odtDoc = NoDoc
    /\ pending = <<>>
    /\ styles = NewStyleRegistry
    /\ exports = <<>>
    /\ saved = <<>>

OdtJsonToHtml ==
    /\ pc = "loaded"
    /\ result' = odtJsonToHtml(arg)
    /\ pc' = "imported"
    /\ UNCHANGED <<pending, styles, exports, saved, html, odtDoc, arg>>

\* The element children of the body parsed from htmlString.
BodyChildren(htmlString) == SelectSeq(parseFromString(htmlString), IsElement)

\* convertHtmlToOdtDoc(htmlString) on the HTML the import returned.
ConvertImported ==
    /\ pc = "imported"
    /\ html' = BodyChildren(result)
    /\ odtDoc' = convertHtmlToOdtDoc(BodyChildren(result), <<>>)
    /\ pc' = "exported"
    /\ UNCHANGED <<pending, styles, exports, saved, arg, result>>

NextImport == OdtJsonToHtml \/ ConvertImported

SpecImport == InitImport /\ [][NextImport]_vars

----------------------------------------------------------------------------
(* Properties of the import and of the import followed by the export.      *)

\* The formatting fields of a TextSpan.
FormattingFields == {"bold", "italic", "underline", "color", "fontSize", "fontFamily"}

\* C11: the document whose office:text holds one text:p with the one TEXT
\* node 'Hello' and no resolved properties imports to exactly '<p>Hello</p>',
\* and that HTML exports to a body of exactly one paragraph block with
\* exactly one span, whose text is 'Hello' and which has none of bold,
\* italic, underline, color, fontSize and fontFamily set.
C11_HelloRoundTrip ==
    arg = OdtDocument(<<nHello>>) =>
        /\ pc # "loaded" => result = Chars("<p>Hello</p>")
        /\ pc = "exported" =>
              /\ Len(odtDoc.body) = 1
              /\ odtDoc.body[1].type = "paragraph"
              /\ Len(odtDoc.body[1].value.spans) = 1
              /\ odtDoc.body[1].value.spans[1].text = Chars("Hello")
              /\ DOMAIN odtDoc.body[1].value.spans[1] \cap FormattingFields = {}

\* C11 witness: the 'Hello' document has been imported and exported again.
C11_HelloExported == arg = OdtDocument(<<nHello>>) /\ pc = "exported"

\* The property families odtJsonToHtml reads.
Families ==
    {"style:paragraph-properties", "style:text-properties", "style:table-properties",
     "style:table-column-properties", "style:table-row-properties",
     "style:table-cell-properties"}

\* The node has no style data: its styleApplication or resolvedProperties is
\* missing or null, or every family the importer reads is missing or null.
LacksStyleData(node) ==
    \/ Nullish(node, "styleApplication")
    \/ Nullish(node.styleApplication, "resolvedProperties")
    \/ \A f \in Families : Nullish(node.styleApplication.resolvedProperties, f)

RECURSIVE AllLackStyleData(_)
\* The node and every node below it have no style data.
AllLackStyleData(node) ==
    /\ LacksStyleData(node)
    /\ \A i \in 1..Len(ChildrenOrEmpty(node)) : AllLackStyleData(ChildrenOrEmpty(node)[i])

\* C12: odtJsonToHtml returns the empty string for a null document, a
\* document without content and a document without an office:text node; and
\* when the styleApplication or the resolvedProperties of every node is
\* missing or null or lacks the family, the HTML has no style attribute.
C12_MissingDataDegrades ==
    pc # "loaded" =>
        /\ (\/ Has(arg, "null")
            \/ Nullish(arg, "content")
            \/ arg = [content |-> OdtElement("office:document-content", EmptyObj, <<nHello>>)])
           => result = <<>>
        /\ \A nodes \in OdtBodies :
               (arg = OdtDocument(nodes) /\ \A i \in 1..Len(nodes) : AllLackStyleData(nodes[i]))
               => ~Includes(result, Chars(" style="))

\* C12 witness: paragraphs with a null styleApplication and with resolved
\* properties of other families only have been imported.
C12_DegradedImported ==
    pc = "imported" /\ arg = OdtDocument(<<nNullStyle, nOtherFamily>>)

\* The element names nodeToHtml has a case for.
RecognizedNames ==
    {"text:p", "text:span", "text:s", "table:table", "table:table-header-rows",
     "table:table-row", "table:table-cell", "draw:frame", "draw:text-box", "draw:image",
     "table:table-column"} \cup DroppedNames

IsTextNode(node) == node.nodeType = "TEXT" \/ node.name = "#text"

RECURSIVE TextsBelow(_, _)
\* The escaped text of every TEXT node at or below the node that has an
\* element of an unrecognized name above it (inside), in document order.
TextsBelow(node, inside) ==
    IF IsTextNode(node)
    THEN (IF inside /\ node.textContent # <<>> THEN <<escapeHtml(node.textContent)>> ELSE <<>>)
    ELSE Concat([i \in 1..Len(ChildrenOrEmpty(node)) |->
                    TextsBelow(ChildrenOrEmpty(node)[i],
                               inside \/ node.name \notin RecognizedNames)])

RECURSIVE InOrder(_, _, _)
\* Every text occurs in cs from index i on, each after the one before it.
InOrder(cs, texts, i) ==
    IF texts = <<>> THEN TRUE
    ELSE /\ \E j \in i..Len(cs) : StartsAt(cs, j, Head(texts))
         /\ InOrder(cs, Tail(texts),
                (CHOOSE j \in i..Len(cs) :
                     /\ StartsAt(cs, j, Head(texts))
                     /\ \A k \in i..(j - 1) : ~StartsAt(cs, k, Head(texts)))
                + Len(Head(texts)))

RECURSIVE OutsideTags(_, _)
\* The characters of the markup from index i on that are not part of a tag.
OutsideTags(cs, i) ==
    IF i > Len(cs) THEN <<>>
    ELSE IF cs[i] = "<" THEN OutsideTags(cs, TagAttributes(cs, i + 1, EmptyObj).next)
    ELSE <<cs[i]>> \o OutsideTags(cs, i + 1)

\* C13: the text of every TEXT node below an element of an unrecognized
\* name, wherever that element is (also directly inside a table:table or a
\* table:table-row), appears escaped and in document order in the HTML.
C13_UnknownWrappersKeepText ==
    pc # "loaded" =>
        \A nodes \in OdtBodies :
            arg = OdtDocument(nodes) =>
                InOrder(OutsideTags(result, 1),
                        Concat([i \in 1..Len(nodes) |-> TextsBelow(nodes[i], FALSE)]), 1)

----------------------------------------------------------------------------
(* Properties of the rendered content.                                     *)

\* The value of an attribute of a rendered element, "" when it has none.
AttrOf(element, attr) ==
    IF Has(element, "attrs") /\ \E k \in 1..Len(element.attrs) : element.attrs[k][1] = attr
    THEN element.attrs[CHOOSE k \in 1..Len(element.attrs) : element.attrs[k][1] = attr][2]
    ELSE ""

RECURSIVE ElementsIn(_)
\* The rendered elements of a sequence of elements, with those below them,
\* in document order.
ElementsIn(elements) ==
    Concat([k \in 1..Len(elements) |->
               <<elements[k]>>
               \o (IF Has(elements[k], "children") THEN ElementsIn(elements[k].children)
                   ELSE <<>>)])

\* The elements of a rendered body, block after block.
BodyElements(body) == Concat([b \in 1..Len(body) |-> ElementsIn(body[b])])

\* The preset style names of the font-family roles.
PresetNames == {FONT_FAMILY_MAP[role] : role \in DOMAIN FONT_FAMILY_MAP}

\* The set of the elements of a sequence.
Range(seq) == {seq[k] : k \in 1..Len(seq)}

\* The style names the <text:span> elements of a rendered body refer to.
SpanStyleRefs(body) ==
    {AttrOf(el, "text:style-name") : el \in {x \in Range(BodyElements(body)) : x.tag = "text:span"}}

\* The names of the text styles a content.xml declares.
TextStylesDeclared(xml) ==
    {decl.name : decl \in {d \in Range(xml.automaticStyles) : d.family = "text"}}

\* C14: a span carrying a font-family role is rendered with the preset name
\* FONT_FAMILY_MAP gives for the role, it adds nothing to the span styles of
\* the StyleRegistry, and every preset name a <text:span> of the body refers
\* to is declared as a text style in the content.xml emitted.
C14_FamilyPresetsDeclared ==
    /\ \A c \in 1..Len(pending) :
           \A i \in 1..Len(pending[c].log) :
               (TruthyStr(pending[c].log[i].span, "fontFamily")
                /\ pending[c].log[i].span.fontFamily \in DOMAIN FONT_FAMILY_MAP)
               => StyleNameOf(pending[c].log[i])
                      = FONT_FAMILY_MAP[pending[c].log[i].span.fontFamily]
    /\ \A k \in 1..Len(styles.spanStyles) : ~TruthyStr(styles.spanStyles[k].span, "fontFamily")
    /\ \A x \in 1..Len(exports) :
           (SpanStyleRefs(exports[x].xml.body) \cap PresetNames)
               \subseteq TextStylesDeclared(exports[x].xml)

----------------------------------------------------------------------------
(* One buildContentXml run, block by block: odtDoc is the document being   *)
(* built, styles the registry of the run, pending the blocks rendered so   *)
(* far, each with its log, arg the block rendered last and result the XML  *)
(* renderBlock returned for it.                                            *)

pPlain == [spans |-> <<sPlain, sBreaks>>]
pStart == [spans |-> <<sPlain>>, align |-> "start"]

RenderPool == BlockPool \cup {[type |-> "paragraph", value |-> p] : p \in {pPlain, pStart}}

MaxRendered == 3

MaxTextLen == 3

\* The span texts of up to MaxTextLen characters, newlines among them.
SpanTexts == UNION {[1..n -> {"a", "<", NL}] : n \in 0..MaxTextLen}

\* The documents built: up to MaxRendered blocks of the pool, or one
\* paragraph of two spans with any two of the texts, the second one bold.
RenderDocs ==
    {MkDoc(body) : body \in UNION {[1..n -> RenderPool] : n \in 0..MaxRendered}}
    \cup {MkDoc(<<[type |-> "paragraph",
                   value |-> [spans |-> <<[text |-> t], [text |-> u, bold |-> TRUE]>>]]>>) :
              t \in SpanTexts, u \in SpanTexts}

InitRender ==
    /\ odtDoc \in RenderDocs
    /\ pc = "rendering"
    /\ styles = NewStyleRegistry
    /\ pending = <<>>
    /\ arg = <<>>
    /\ result = <<>>
    /\ exports = <<>>
    /\ saved = <<>>
    /\ html = <<>>

\* The effects of one renderBlock call that returned r.
Rendered(block, r) ==
    /\ styles' = r.reg
    /\ arg' = <<block>>
    /\ result' = r.xml
    /\ pending' = Append(pending, [block |-> block, log |-> r.log])

\* The next step of doc.body.map(block => renderBlock(block, styles)).
RenderBlock ==
    /\ Len(pending) < Len(odtDoc.body)
    /\ Rendered(odtDoc.body[Len(pending) + 1],
                renderBlock(odtDoc.body[Len(pending) + 1], styles))
    /\ UNCHANGED <<odtDoc, pc, exports, saved, html>>

NextRender == RenderBlock

SpecRender == InitRender /\ [][NextRender]_vars

\* A merged span with none of bold, italic, underline, color, fontSize and
\* fontFamily set.
PlainSpan(span) ==
    /\ ~TruthyBool(span, "bold") /\ ~TruthyBool(span, "italic")
    /\ ~TruthyBool(span, "underline") /\ ~TruthyChars(span, "color")
    /\ ~TruthyStr(span, "fontSize") /\ ~TruthyStr(span, "fontFamily")

\* A paragraph block without a layout property, its align unset or 'start'.
PlainLayout(block) ==
    /\ block.type = "paragraph"
    /\ DOMAIN block.value
           \cap {"lineHeight", "marginTop", "marginBottom", "marginLeft", "marginRight",
                 "textIndent"} = {}
    /\ Has(block.value, "align") => block.value.align = "start"

\* Every span of the paragraph block is plain.
PlainSpans(block) ==
    \A i \in 1..Len(block.value.spans) : PlainSpan(mergeSpanProps(block.value.spans[i]))

\* C15: a span with none of bold, italic, underline, color, fontSize and
\* fontFamily set is rendered without a text:style-name attribute, and so
\* is a paragraph with no layout property and align unset or 'start';
\* rendering such a paragraph leaves the paragraph styles of the registry
\* unchanged, and when its spans are plain too, every table of the registry.
C15_PlainGetsNoStyle ==
    [][/\ \A i \in 1..Len(pending'[Len(pending')].log) :
              PlainSpan(pending'[Len(pending')].log[i].span)
              => ~Has(pending'[Len(pending')].log[i], "name")
       /\ PlainLayout(arg'[1])
          => /\ AttrOf(result'[1], "text:style-name") = ""
             /\ styles'.paragraphStyles = styles.paragraphStyles
             /\ PlainSpans(arg'[1])
                => /\ styles' = styles
                   /\ \A el \in Range(ElementsIn(result')) :
                          AttrOf(el, "text:style-name") = ""]_vars

\* C15 witness: a paragraph with align 'start' and a plain span has been
\* rendered into a registry that already held span and paragraph styles.
C15_PlainRendered ==
    /\ arg = <<[type |-> "paragraph", value |-> pStart]>>
    /\ styles.spanStyles # <<>>
    /\ styles.paragraphStyles # <<>>

\* The maximal newline-free segments of a text, the empty ones included: one
\* more than it has newlines.
Segments(text) ==
    LET breaks == <<0>> \o SelectSeq([i \in 1..Len(text) |-> IF text[i] = NL THEN i ELSE 0],
                                     LAMBDA i : i # 0) \o <<Len(text) + 1>>
    IN [k \in 1..(Len(breaks) - 1) |-> SubSeq(text, breaks[k] + 1, breaks[k + 1] - 1)]

\* What the claim expects of one span: a <text:span> named as the span for
\* every non-empty segment, a <text:line-break/> after every segment but the
\* last.
ExpectedFragments(entry) ==
    Concat([k \in 1..Len(Segments(entry.span.text)) |->
               (IF Segments(entry.span.text)[k] # <<>>
                THEN <<[tag |-> "text:span",
                        attrs |-> IF Has(entry, "name")
                                  THEN <<<<"text:style-name", entry.name>>>> ELSE <<>>,
                        text |-> escapeXml(Segments(entry.span.text)[k])]>>
                ELSE <<>>)
               \o (IF k < Len(Segments(entry.span.text))
                   THEN <<[tag |-> "text:line-break"]>> ELSE <<>>)])

\* C16: the children of a rendered paragraph are, span after span and in
\* text order, one <text:line-break/> per newline of the span's text and one
\* <text:span> per maximal non-empty newline-free segment, each carrying the
\* style name resolved for the span (or none); empty segments yield nothing.
C16_NewlinesBecomeLineBreaks ==
    (arg # <<>> /\ arg[1].type = "paragraph" /\ arg[1].value.spans # <<>>)
    => result[1].children
           = Concat([i \in 1..Len(pending[Len(pending)].log) |->
                        ExpectedFragments(pending[Len(pending)].log[i])])

\* C16 witness: a paragraph whose first span holds a text, two adjacent
\* newlines and another text has been rendered as the second block of a run.
C16_BreaksRendered ==
    /\ Len(pending) = 2
    /\ arg = <<[type |-> "paragraph", value |-> pBreaks]>>
    /\ arg[1].value.spans[1].text = <<"i", NL, NL, "<", "&">>

----------------------------------------------------------------------------
(* The blocks of a converted document against the parsed HTML.             *)

\* The lower-case letters of a text, in its order.
LettersOf(cs) == SelectSeq(cs, LAMBDA c : \E k \in 1..Len(LowerCase) : LowerCase[k] = c)

RECURSIVE DomText(_)
\* The text of the nodes and of everything below them, in document order.
DomText(nodes) ==
    IF nodes = <<>> THEN <<>>
    ELSE (IF Head(nodes).nodeType = TEXT_NODE THEN Head(nodes).textContent
          ELSE DomText(Head(nodes).childNodes))
         \o DomText(Tail(nodes))

\* The text of the spans of a sequence of paragraphs.
ParagraphsText(paragraphs) ==
    Concat([k \in 1..Len(paragraphs) |->
               Concat([s \in 1..Len(paragraphs[k].spans) |-> paragraphs[k].spans[s].text])])

\* The text a block carries: that of its paragraph, or of the cells of its
\* table row by row; none for a block of another type.
BlockText(block) ==
    IF block.type = "paragraph" THEN ParagraphsText(<<block.value>>)
    ELSE IF block.type = "table"
    THEN Concat([i \in 1..Len(block.value.rows) |->
                    Concat([j \in 1..Len(block.value.rows[i].cells) |->
                               ParagraphsText(block.value.rows[i].cells[j].paragraphs)])])
    ELSE <<>>

\* The blocks carry the letters of the HTML in the reading order of the HTML.
BlocksInReadingOrder(body, doc) ==
    LettersOf(Concat([n \in 1..Len(doc.body) |-> BlockText(doc.body[n])]))
        = LettersOf(DomText(body))

\* C17: every block in the body of a converted document has type
\* 'paragraph' or 'table', also when the HTML holds page-break marker
\* elements, and the blocks appear in the reading order of the HTML elements
\* they come from.
C17_BlocksAreParagraphsOrTablesInOrder ==
    pc = "converted"
        => (/\ \A n \in 1..Len(odtDoc.body) : odtDoc.body[n].type \in {"paragraph", "table"}
            /\ BlocksInReadingOrder(html, odtDoc))

\* The column widths of a table that are set.
ColumnWidthsSet(table) ==
    {i \in 1..Len(table.columnWidths) : table.columnWidths[i] # Undefined}

\* C18: every table of a converted document carries at most one width
\* channel: widthPct is never set together with widthCm or with a column
\* width, whether the width came from attributes or from measurement.
C18_OneWidthChannel ==
    pc = "converted"
        => \A n \in 1..Len(odtDoc.body) :
               odtDoc.body[n].type = "table"
                   => ~(/\ Has(odtDoc.body[n].value, "widthPct")
                        /\ \/ Has(odtDoc.body[n].value, "widthCm")
                           \/ ColumnWidthsSet(odtDoc.body[n].value) # {})

----------------------------------------------------------------------------
(* handleDownload of the editor page: convertHtmlToOdtDoc on the HTML of the *)
(* pages with the measurements of the editor's tables, then                *)
(* makeAndDownloadOdt, which builds content.xml from the document          *)
(* returned.  result holds the content.xml built.                          *)

ExportElements ==
    {eRuns, eStyled, eOrdered, eTable, eTablePct, eTableCols, eTableSpans, ePageBreak}

ExportBodies == UNION {[1..n -> ExportElements] : n \in 0..MaxNodes}

InitExport ==
    /\ html \in ExportBodies
    /\ arg \in TableMeasurements
    /\ pc = "parsed"
    /\ odtDoc = NoDoc
    /\ pending = <<>>
    /\ styles = NewStyleRegistry
    /\ exports = <<>>
    /\ saved = <<>>
    /\ result = <<>>

\* buildContentXml(doc) of makeAndDownloadOdt, on the converted document.
Built(built) ==
    /\ result' = built.xml
    /\ styles' = built.reg

BuildContentXml ==
    /\ pc = "converted"
    /\ Built(buildContentXml(odtDoc))
    /\ pc' = "built"
    /\ UNCHANGED <<pending, exports, saved, html, odtDoc, arg>>

NextExport == ConvertHtmlToOdtDoc \/ BuildContentXml

SpecExport == InitExport /\ [][NextExport]_vars

\* The cells of a table of the model, row after row.
TableCells(t) == Concat([i \in 1..Len(t.rows) |-> t.rows[i].cells])

\* The <table:table-cell> elements of a rendered table, row after row.
RenderedCells(tableXml) ==
    Concat([i \in 1..Len(tableXml.children) |->
               IF tableXml.children[i].tag = "table:table-row"
               THEN tableXml.children[i].children ELSE <<>>])

\* The rendered cell carries the attribute exactly when the cell has the
\* span and the span is above 1, and then with the number of the span.
SpanRendered(c, x, field, attr) ==
    /\ Has(c, field) => c[field] > 1
    /\ AttrOf(x, attr) # "1"
    /\ IF Has(c, field) /\ c[field] > 1 THEN AttrOf(x, attr) = ToString(c[field])
       ELSE AttrOf(x, attr) = ""

\* C19: in an exported document every rendered <table:table-cell> carries
\* table:number-columns-spanned exactly when the colSpan of its cell is above
\* 1, and table:number-rows-spanned exactly when its rowSpan is; no cell of
\* the converted document stores a span of 1 and no rendered cell carries one.
C19_SpansAboveOneOnly ==
    pc = "built"
        => \A n \in 1..Len(odtDoc.body) :
               odtDoc.body[n].type = "table"
                   => /\ Len(result.body[n]) = 1
                      /\ Len(RenderedCells(result.body[n][1])) = Len(TableCells(odtDoc.body[n].value))
                      /\ \A k \in 1..Len(TableCells(odtDoc.body[n].value)) :
                             /\ SpanRendered(TableCells(odtDoc.body[n].value)[k],
                                             RenderedCells(result.body[n][1])[k],
                                             "colSpan", "table:number-columns-spanned")
                             /\ SpanRendered(TableCells(odtDoc.body[n].value)[k],
                                             RenderedCells(result.body[n][1])[k],
                                             "rowSpan", "table:number-rows-spanned")

\* C19 witness: the table whose first cell has colspan="1" rowspan="2" and
\* whose second cell has colspan="3" rowspan="1" has been exported: the first
\* rendered cell carries the row span only, the second the column span only.
C19_SpannedCellsExported ==
    /\ pc = "built"
    /\ html = <<eTableSpans>>
    /\ AttrOf(RenderedCells(result.body[1][1])[1], "table:number-rows-spanned") = "2"
    /\ AttrOf(RenderedCells(result.body[1][1])[1], "table:number-columns-spanned") = ""
    /\ AttrOf(RenderedCells(result.body[1][1])[2], "table:number-columns-spanned") = "3"
    /\ AttrOf(RenderedCells(result.body[1][1])[2], "table:number-rows-spanned") = ""

----------------------------------------------------------------------------
(* Paragraphs that mix inline and block-level children.                    *)

\* The paragraphs of the pool with a block-level child next to inline
\* children.
MixedParagraphs == {nMixed, nSpanFrame}

\* A start tag of the element begins at index j of the markup.
OpensAt(cs, j, tag) ==
    \/ StartsAt(cs, j, <<"<">> \o Chars(tag) \o <<">">>)
    \/ StartsAt(cs, j, <<"<">> \o Chars(tag) \o <<" ">>)

\* The number of <p> elements that are open at index j of the markup.
OpenParagraphs(cs, j) ==
    Cardinality({k \in 1..(j - 1) : OpensAt(cs, k, "p")})
    - Cardinality({k \in 1..(j - 1) : StartsAt(cs, k, Chars("</p>"))})

\* Some <table> of the markup starts inside a <p> element.
TableInsideParagraph(cs) ==
    \E j \in 1..Len(cs) : OpensAt(cs, j, "table") /\ OpenParagraphs(cs, j) > 0

\* C20: the HTML of a document whose paragraphs mix inline children with
\* block-level children (a table, a text box, a frame holding one) has no
\* <table> inside a <p> element, and its text is the text of the children
\* in their reading order.
C20_BlockChildrenSplitParagraphs ==
    pc # "loaded" =>
        \A nodes \in OdtBodies :
            (arg = OdtDocument(nodes) /\ \A i \in 1..Len(nodes) : nodes[i] \in MixedParagraphs)
                => /\ ~TableInsideParagraph(result)
                   /\ OutsideTags(result, 1)
                          = Concat(Concat([i \in 1..Len(nodes) |-> TextsBelow(nodes[i], TRUE)]))

----------------------------------------------------------------------------
(* Tag-implied span styles and CSS-derived values.                         *)

\* The span style the tag of the element implies.
TagImplied(el) ==
    MergeSpanStyles(EmptyObj, <<TagStyle(BLOCK_TAG_SPAN_STYLES, el.tagName),
                                TagStyle(INLINE_TAG_STYLES, el.tagName)>>)

\* The element of a block that carries a tag-implied style over the whole
\* text of the block: a heading, or the only child of a paragraph.
StyledTag(el) ==
    IF el.tagName \in DOMAIN BLOCK_TAG_SPAN_STYLES THEN <<el>>
    ELSE IF el.tagName = "P" /\ Len(el.childNodes) = 1 /\ IsElement(el.childNodes[1])
            /\ el.childNodes[1].tagName \in DOMAIN INLINE_TAG_STYLES
    THEN <<el.childNodes[1]>>
    ELSE <<>>

\* The span carries, for each property the tag implies and the CSS of the
\* element gives a value for, the value of the CSS.
CssOverridesTag(el, span) ==
    /\ (Has(TagImplied(el), "bold") /\ CssValue(collectCssStyles(el), "font-weight") # <<>>)
           => TruthyBool(span, "bold")
                  = CssBold(ToLowerCase(CssValue(collectCssStyles(el), "font-weight")))
    /\ (Has(TagImplied(el), "italic") /\ CssValue(collectCssStyles(el), "font-style") # <<>>)
           => TruthyBool(span, "italic")
                  = Includes(ToLowerCase(CssValue(collectCssStyles(el), "font-style")),
                             Chars("italic"))
    /\ (Has(TagImplied(el), "underline")
        /\ CssValue(collectCssStyles(el), "text-decoration") # <<>>)
           => TruthyBool(span, "underline")
                  = Includes(ToLowerCase(CssValue(collectCssStyles(el), "text-decoration")),
                             Chars("underline"))
    /\ (Has(TagImplied(el), "fontSize") /\ CssValue(collectCssStyles(el), "font-size") # <<>>
        /\ cssFontSizeToPt(CssValue(collectCssStyles(el), "font-size")) # Undefined)
           => /\ Has(span, "fontSize")
              /\ span.fontSize = cssFontSizeToPt(CssValue(collectCssStyles(el), "font-size"))[1]

\* C21: when the tag of an element implies a span style (h1-h4, b, strong,
\* i, em, u) and the CSS or the classes of the element give a value for the
\* same property (bold, italic, underline, fontSize), the span produced
\* carries the value of the CSS, also when that value turns the property
\* off.
C21_CssOverridesTagStyle ==
    pc = "converted"
        => ((\A n \in 1..Len(html) : StyledTag(html[n]) # <<>>)
               => /\ Len(odtDoc.body) = Len(html)
                  /\ \A n \in 1..Len(html) :
                         /\ odtDoc.body[n].type = "paragraph"
                         /\ Len(odtDoc.body[n].value.spans) = 1
                         /\ CssOverridesTag(StyledTag(html[n])[1],
                                            odtDoc.body[n].value.spans[1]))

----------------------------------------------------------------------------
(* The calls of makeAndDownloadOdt one by one.  arg counts the calls made, *)
(* pending holds the calls waiting at `await zip.generateAsync(...)` with  *)
(* the entries added so far, saved every invocation of saveAs with the     *)
(* call that made it, result the calls that have ended with their outcome. *)

MaxCalls == 3

\* A value without a body: doc.body.map(...) of buildContentXml throws a
\* TypeError for it.
BrokenDoc == [meta |-> DocMeta, styles |-> [bodyFont |-> "Malgun Gothic"]]

SaveDocs == {MkDoc(<<>>), OtherDoc, BrokenDoc}

\* buildContentXml(doc) throws.
BuildThrows(doc) == ~Has(doc, "body")

InitSave ==
    /\ odtDoc \in SaveDocs
    /\ arg = 0
    /\ pending = <<>>
    /\ saved = <<>>
    /\ result = <<>>
    /\ styles = NewStyleRegistry
    /\ exports = <<>>
    /\ html = <<>>
    /\ pc = "idle"

\* A call of makeAndDownloadOdt whose buildContentXml throws: the mimetype
\* entry has been added, the call rejects before it reaches generateAsync.
CallThrows(doc, filename) ==
    /\ arg < MaxCalls
    /\ BuildThrows(doc)
    /\ arg' = arg + 1
    /\ result' = Append(result, [call |-> arg + 1, outcome |-> "build failed"])
    /\ UNCHANGED <<pending, saved, styles, exports, html, odtDoc, pc>>

\* A call of makeAndDownloadOdt up to `await zip.generateAsync(...)`.
CallAwaits(doc, filename) ==
    /\ arg < MaxCalls
    /\ ~BuildThrows(doc)
    /\ arg' = arg + 1
    /\ pending' = Append(pending, [call |-> arg + 1, filename |-> filename,
                                   zip |-> ZipEntries(doc, buildContentXml(doc).xml)])
    /\ UNCHANGED <<saved, result, styles, exports, html, odtDoc, pc>>

\* zip.generateAsync of pending call i rejects and the call invokes
\* saveAs(blob, filename) all the same.
SaveAsAnyway(i) ==
    /\ saved' = Append(saved, [call |-> pending[i].call, filename |-> pending[i].filename,
                               blob |-> GenerateBlob(pending[i].zip,
                                                     [compression |-> "DEFLATE"])])
    /\ result' = Append(result, [call |-> pending[i].call, outcome |-> "rejected"])
    /\ pending' = Without(pending, i)
    /\ UNCHANGED <<arg, styles, exports, html, odtDoc, pc>>

\* zip.generateAsync of pending call i resolves: saveAs(blob, filename) runs
\* and the call returns.
SaveAs(i) ==
    /\ saved' = Append(saved, [call |-> pending[i].call, filename |-> pending[i].filename,
                               blob |-> GenerateBlob(pending[i].zip,
                                                     [compression |-> "DEFLATE"])])
    /\ result' = Append(result, [call |-> pending[i].call, outcome |-> "saved"])
    /\ pending' = Without(pending, i)
    /\ UNCHANGED <<arg, styles, exports, html, odtDoc, pc>>

\* zip.generateAsync of pending call i rejects: the await throws and the
\* call rejects, saveAs is not reached.
CompressionFails(i) ==
    /\ result' = Append(result, [call |-> pending[i].call, outcome |-> "rejected"])
    /\ pending' = Without(pending, i)
    /\ UNCHANGED <<arg, saved, styles, exports, html, odtDoc, pc>>

NextSave ==
    \/ CallThrows(odtDoc, "document.odt")
    \/ CallAwaits(odtDoc, "document.odt")
    \/ \E i \in 1..Len(pending) : SaveAs(i)
    \/ \E i \in 1..Len(pending) : CompressionFails(i)

SpecSave == InitSave /\ [][NextSave]_vars

\* The invocations of saveAs made by the call.
SavesOf(call) == {k \in 1..Len(saved) : saved[k].call = call}

\* The outcomes the call has ended with.
OutcomesOf(call) == {k \in 1..Len(result) : result[k].call = call}

\* C22: every call of makeAndDownloadOdt invokes saveAs at most once, and
\* only when the generation of the archive has completed, with an archive
\* holding the six entries; a call whose content building or compression
\* failed has invoked saveAs never, and it is not taken up again: it ends
\* once and is pending no more.
C22_SavedOnceAfterGeneration ==
    /\ \A call \in 1..arg : Cardinality(SavesOf(call)) <= 1
    /\ \A k \in 1..Len(saved) :
           /\ Len(FileEntries(saved[k].blob)) = 6
           /\ \E r \in 1..Len(result) :
                  result[r].call = saved[k].call /\ result[r].outcome = "saved"
    /\ \A r \in 1..Len(result) :
           /\ result[r].outcome \in {"build failed", "rejected"} => SavesOf(result[r].call) = {}
           /\ Cardinality(OutcomesOf(result[r].call)) = 1
           /\ \A i \in 1..Len(pending) : pending[i].call # result[r].call

\* C22 witness: of three calls one was saved, one failed in the compression
\* and one is still pending.
C22_SavedFailedAndPending ==
    /\ arg = 3
    /\ Len(saved) = 1
    /\ Len(pending) = 1
    /\ \E r \in 1..Len(result) : result[r].outcome = "rejected"

----------------------------------------------------------------------------
(* The StyleRegistry on its own: any sequence of its five get* methods     *)
(* (odtBuilder.ts 167-275).  exports logs the calls made, in order; result *)
(* is what the last call returned.                                          *)

MaxGets == 3

cPadded == [paragraphs |-> <<>>,
            backgroundColor |-> <<" ", "#", "e", "e", "e", "e", "e", "e", " ">>]
tZeroPct == [rows |-> <<>>, widthPct |-> Num(0, 1)]
tTinyPct == [rows |-> <<>>, widthPct |-> Num(1, 2)]
tHugePct == [rows |-> <<>>, widthPct |-> Num(2000, 1)]
tThirdPct == [rows |-> <<>>, widthPct |-> Num(33333, 1000)]
tAutoColumnsPct ==
    [rows |-> <<>>, widthPct |-> Num(40, 1),
     columnWidths |-> <<<<<<"a", "u", "t", "o">>>>, <<>>>>]
tColumnsPct ==
    [rows |-> <<>>, widthPct |-> Num(50, 1),
     columnWidths |-> <<<<<<"2", "c", "m">>>>, <<<<"1", ".", "5", " ", "C", "M">>>>,
                        <<<<"9", "p", "x">>>>>>]
tAllWidths ==
    [rows |-> <<>>, widthPct |-> Num(50, 1), widthCm |-> <<"8", "c", "m">>,
     columnWidths |-> <<<<<<"2", "c", "m">>>>, <<<<"3", "c", "m">>>>>>]

RegistryTables ==
    Tables \cup {tZeroPct, tTinyPct, tHugePct, tThirdPct, tAutoColumnsPct, tColumnsPct,
                 tAllWidths}

\* The argument of each call: a span, a paragraph, a column width (<<>> for
\* undefined), a table, a cell.
RegistryCalls ==
    [family : {"spanStyles"},
     input : {sPlain, sBold, sBoldNotItalic, sRed}]
    \cup [family : {"paragraphStyles"},
          input : {pEmpty, pEmptyCentered, pAttr}]
    \cup [family : {"tableColumnStyles"},
          input : {<<>>, <<<<"2", ".", "5", "c", "m">>>>, <<<<" ", "2", ".", "5", "c", "m">>>>}]
    \cup [family : {"tableStyles"}, input : {tEmpty, tZeroPct, tPlain}]
    \cup [family : {"tableCellStyles"}, input : {cPlain, cWide, cPadded}]

\* The method of the family, applied to the argument.
Get(reg, call) ==
    CASE call.family = "spanStyles" -> getSpanStyle(reg, call.input)
      [] call.family = "paragraphStyles" -> getParagraphStyle(reg, call.input)
      [] call.family = "tableColumnStyles" -> getTableColumnStyle(reg, call.input)
      [] call.family = "tableStyles" -> getTableStyle(reg, call.input)
      [] call.family = "tableCellStyles" -> getTableCellStyle(reg, call.input)

InitRegistry ==
    /\ styles = NewStyleRegistry
    /\ exports = <<>>
    /\ result = <<>>
    /\ arg = 0
    /\ pending = <<>>
    /\ saved = <<>>
    /\ html = <<>>
    /\ odtDoc = MkDoc(<<>>)
    /\ pc = "registry"

\* The call returns got.name (undefined when absent) and leaves got.reg.
Returned(call, got) ==
    /\ styles' = got.reg
    /\ result' = IF Has(got, "name") THEN <<got.name>> ELSE <<>>
    /\ exports' = Append(exports, call)
    /\ arg' = arg + 1
    /\ UNCHANGED <<pc, pending, saved, html, odtDoc>>

Call(family) ==
    /\ pc = "registry"
    /\ arg < MaxGets
    /\ \E call \in RegistryCalls :
          /\ call.family = family
          /\ Returned(call, Get(styles, call))

GetSpanStyle == Call("spanStyles")
GetParagraphStyle == Call("paragraphStyles")
GetTableColumnStyle == Call("tableColumnStyles")
GetTableStyle == Call("tableStyles")
GetTableCellStyle == Call("tableCellStyles")

NextRegistry ==
    \/ GetSpanStyle
    \/ GetParagraphStyle
    \/ GetTableColumnStyle
    \/ GetTableStyle
    \/ GetTableCellStyle

SpecRegistry == InitRegistry /\ [][NextRegistry]_vars

\* The name prefix of each family.
NamePrefix ==
    [spanStyles |-> "T", paragraphStyles |-> "PStyle", tableStyles |-> "TableCustom",
     tableColumnStyles |-> "TableColumnCustom", tableCellStyles |-> "TableCellCustom"]

\* The key a call looks up: the key its method interns in an empty registry,
\* <<>> when the method returns before it reaches the map.
KeyOf(call) ==
    IF Get(NewStyleRegistry, call).reg[call.family] = <<>> THEN <<>>
    ELSE <<Get(NewStyleRegistry, call).reg[call.family][1].key>>

\* The keys the calls of a family have looked up, each once, in the order in
\* which they were first seen.
KeysSeen(calls, family) ==
    LET keys == [i \in 1..Len(calls) |->
                    IF calls[i].family = family THEN KeyOf(calls[i]) ELSE <<>>]
        first == {i \in 1..Len(keys) :
                     keys[i] # <<>> /\ \A j \in 1..(i - 1) : keys[j] # keys[i]}
        RECURSIVE From(_)
        From(i) == IF i > Len(keys) THEN <<>>
                   ELSE IF i \in first THEN <<keys[i][1]>> \o From(i + 1)
                   ELSE From(i + 1)
    IN From(1)

\* The table of every family holds the keys seen, in first-seen order, the
\* i-th under the name prefix \o i.
NamesSequential(reg, calls) ==
    \A family \in DOMAIN NamePrefix :
        /\ [i \in 1..Len(reg[family]) |-> reg[family][i].key] = KeysSeen(calls, family)
        /\ \A i \in 1..Len(reg[family]) :
              reg[family][i].name = NamePrefix[family] \o ToString(i)

\* The last of the calls made.
LastOf(calls) == calls[Len(calls)]

\* The call this step made found its key in the table of its family.
KeyWasPresent(reg, call) ==
    /\ KeyOf(call) # <<>>
    /\ MapIndex(reg[call.family], KeyOf(call)[1]) # 0

\* C23: after any sequence of get* calls the names of each of the five
\* families are prefix1..prefixK, K the number of distinct keys the family has
\* seen, in first-seen order without gap or duplicate; and a call whose key is
\* already in its table returns the name that table holds for it and leaves
\* every table as it was.
C23_NamesSequentialPerFamily ==
    [][/\ NamesSequential(styles', exports')
       /\ KeyWasPresent(styles, LastOf(exports')) =>
             /\ styles' = styles
             /\ result' = <<styles[LastOf(exports').family][
                               MapIndex(styles[LastOf(exports').family],
                                        KeyOf(LastOf(exports'))[1])].name>>]_vars

\* C23 witness: three calls of one family, the third with the key of the
\* first: two names interned, the first of them returned again.
C23_KeySeenAgain ==
    /\ Len(exports) = 3
    /\ exports[1].family = "spanStyles" /\ exports[2].family = "spanStyles"
    /\ exports[3].family = "spanStyles"
    /\ exports[1].input # exports[3].input
    /\ KeyOf(exports[1]) # <<>>
    /\ KeyOf(exports[1]) = KeyOf(exports[3])
    /\ KeyOf(exports[2]) \notin {<<>>, KeyOf(exports[1])}
    /\ Len(styles.spanStyles) = 2
    /\ result = <<"T1">>

\* getTableStyle on its own, over tables with every combination of the
\* three width fields.
InitTableStyle ==
    /\ styles = NewStyleRegistry
    /\ exports = <<>>
    /\ result = <<>>
    /\ arg = 0
    /\ pending = <<>>
    /\ saved = <<>>
    /\ html = <<>>
    /\ odtDoc = MkDoc(<<>>)
    /\ pc = "tables"

InternTableStyle ==
    /\ pc = "tables"
    /\ arg < MaxGets
    /\ \E t \in RegistryTables :
          Returned([family |-> "tableStyles", input |-> t], getTableStyle(styles, t))

NextTableStyle == InternTableStyle

SpecTableStyle == InitTableStyle /\ [][NextTableStyle]_vars

\* The width a table asks for, by the priority of getTableStyle: the explicit
\* widthCm, else the sum of the column widths that parse as cm, else the
\* widthPct (0 and NaN count as no percentage) between 1 and 1000 with two
\* decimals, else 17cm.
WidthChannel(t) ==
    IF Has(t, "widthCm") THEN "style:width=" \o Str(t.widthCm)
    ELSE IF Has(t, "columnWidths") /\ computeAbsoluteWidth(<<t.columnWidths>>) # ""
    THEN "style:width=" \o computeAbsoluteWidth(<<t.columnWidths>>)
    ELSE IF Has(t, "widthPct") /\ IsFinite(t.widthPct) /\ t.widthPct.n # 0
    THEN "style:rel-width="
         \o (IF t.widthPct.n < t.widthPct.d THEN "1.00"
             ELSE IF t.widthPct.n > 1000 * t.widthPct.d THEN "1000.00"
             ELSE ToFixed(t.widthPct.n, t.widthPct.d, 2)) \o "%"
    ELSE "style:width=17cm"

\* The declarations of renderAutomaticStyles with this name and family.
Declared(reg, name, family) ==
    SelectSeq(renderAutomaticStyles(reg), LAMBDA d : d.name = name /\ d.family = family)

----------------------------------------------------------------------------
(* The column widths of a table measured in the live editor (part_004      *)
(* 366-412, 545-568).  A rendered table is the table of the editor root    *)
(* with the rectangles the layout gave it: rows of cells with colSpan,     *)
(* rowSpan and the width of the cell in pixels; colwidth is the            *)
(* data-colwidth of the cell where it has one.                             *)

ContentWidthPx == 600

ColumnPixels == {60, 120, 180}

RenderedCell(colSpan, rowSpan, width) == [colSpan |-> colSpan, rowSpan |-> rowSpan, width |-> width]

\* Three columns, two rows, no span.
RenderedPlain(w) ==
    <<<<RenderedCell(1, 1, w[1]), RenderedCell(1, 1, w[2]), RenderedCell(1, 1, w[3])>>,
      <<RenderedCell(1, 1, w[1]), RenderedCell(1, 1, w[2]), RenderedCell(1, 1, w[3])>>>>

\* The first two columns joined in the first row, the last two in the second.
RenderedColSpans(w) ==
    <<<<RenderedCell(2, 1, w[1] + w[2]), RenderedCell(1, 1, w[3])>>,
      <<RenderedCell(1, 1, w[1]), RenderedCell(2, 1, w[2] + w[3])>>>>

\* The first cell spans both rows: the cells of the second row sit in the
\* second and third column.
RenderedRowSpanFirst(w) ==
    <<<<RenderedCell(1, 2, w[1]), RenderedCell(1, 1, w[2]), RenderedCell(1, 1, w[3])>>,
      <<RenderedCell(1, 1, w[2]), RenderedCell(1, 1, w[3])>>>>

\* The last cell spans both rows.
RenderedRowSpanLast(w) ==
    <<<<RenderedCell(1, 1, w[1]), RenderedCell(1, 1, w[2]), RenderedCell(1, 2, w[3])>>,
      <<RenderedCell(1, 1, w[1]), RenderedCell(1, 1, w[2])>>>>

\* The second column resized in the editor: its cells carry data-colwidth.
RenderedResized(w) ==
    <<<<RenderedCell(1, 1, w[1]),
        RenderedCell(1, 1, w[2]) @@ [colwidth |-> w[2]],
        RenderedCell(1, 1, w[3])>>,
      <<RenderedCell(1, 1, w[1]),
        RenderedCell(1, 1, w[2]) @@ [colwidth |-> w[2]],
        RenderedCell(1, 1, w[3])>>>>

RenderedTables ==
    UNION {{[width |-> w[1] + w[2] + w[3], rows |-> rows] :
               rows \in {RenderedPlain(w), RenderedColSpans(w), RenderedRowSpanFirst(w),
                         RenderedRowSpanLast(w), RenderedResized(w)}} :
           w \in [1..3 -> ColumnPixels]}

\* Math.max(cell.colSpan || 1, 1)
MeasuredSpan(cell) == Max(IF cell.colSpan = 0 THEN 1 ELSE cell.colSpan, 1)

RECURSIVE SpanSum(_)
\* The count of one row: the sum of the spans of its cells.
SpanSum(cells) == IF cells = <<>> THEN 0 ELSE MeasuredSpan(Head(cells)) + SpanSum(Tail(cells))

RECURSIVE MaxColumns(_)
MaxColumns(rows) == IF rows = <<>> THEN 0 ELSE Max(SpanSum(Head(rows)), MaxColumns(Tail(rows)))

\* baseWidth: cellRect.width / span, undefined without a positive width.
BaseWidth(cell) ==
    IF cell.width > 0 THEN Some(Num(cell.width, MeasuredSpan(cell))) ELSE Undefined

\* The for loop over the span of a cell: baseWidth replaces what a column
\* holds when the column holds nothing or less.
MeasureCell(columnWidths, columnIndex, span, baseWidth) ==
    [k \in 1..Len(columnWidths) |->
        IF /\ columnIndex < k /\ k <= columnIndex + span
           /\ baseWidth # Undefined
           /\ \/ columnWidths[k] = Undefined
              \/ baseWidth[1].n * columnWidths[k][1].d > columnWidths[k][1].n * baseWidth[1].d
        THEN baseWidth
        ELSE columnWidths[k]]

RECURSIVE MeasureRow(_, _, _)
\* The forEach over the cells of a row, columnIndex the column of the next.
MeasureRow(cells, columnWidths, columnIndex) ==
    IF cells = <<>> THEN columnWidths
    ELSE MeasureRow(Tail(cells),
             MeasureCell(columnWidths, columnIndex, MeasuredSpan(Head(cells)),
                         BaseWidth(Head(cells))),
             columnIndex + MeasuredSpan(Head(cells)))

RECURSIVE MeasureRows(_, _)
\* The forEach over the rows: every row starts at column 0.
MeasureRows(rows, columnWidths) ==
    IF rows = <<>> THEN columnWidths
    ELSE MeasureRows(Tail(rows), MeasureRow(Head(rows), columnWidths, 0))

\* width / contentWidthPx of a measured column.
ColumnRatio(width, contentWidthPx) ==
    IF width = Undefined THEN Undefined
    ELSE Some(Num(width[1].n, width[1].d * contentWidthPx))

\* The columnRatios of measureTableLayout.
ColumnRatios(columnWidths, contentWidthPx) ==
    [k \in 1..Len(columnWidths) |-> ColumnRatio(columnWidths[k], contentWidthPx)]

\* measureTableLayout
measureTableLayout(table, contentWidthPx) ==
    Opt(table.width > 0, "tableRatio", Num(table.width, contentWidthPx))
    @@ [columnRatios |->
           ColumnRatios(MeasureRows(table.rows,
                            [k \in 1..MaxColumns(table.rows) |-> Undefined]),
                        contentWidthPx)]

\* The <td> of a rendered cell, as editor.getHTML() writes it.
RenderedTd(cell) ==
    Element("TD", <<>>,
            ("colspan" :> IntChars(cell.colSpan)) @@ ("rowspan" :> IntChars(cell.rowSpan))
            @@ Opt(Has(cell, "colwidth"), "data-colwidth",
                   IF Has(cell, "colwidth") THEN IntChars(cell.colwidth) ELSE <<>>),
            <<Tag("P", <<Text(<<"x">>)>>)>>)

\* The <table> of a rendered table.
RenderedElement(table) ==
    Tag("TABLE",
        <<Tag("TBODY",
              [r \in 1..Len(table.rows) |->
                  Tag("TR", [c \in 1..Len(table.rows[r]) |-> RenderedTd(table.rows[r][c])])])>>)

\* convertHtmlToOdtDoc(html, { editorRoot, contentWidthPx }) for an editor
\* whose one table is rendered as arg.
InitMeasure ==
    /\ arg \in RenderedTables
    /\ html = <<RenderedElement(arg)>>
    /\ pc = "rendered"
    /\ odtDoc = NoDoc
    /\ pending = <<>>
    /\ styles = NewStyleRegistry
    /\ exports = <<>>
    /\ saved = <<>>
    /\ result = <<>>

ConvertMeasured ==
    /\ pc = "rendered"
    /\ odtDoc' = convertHtmlToOdtDoc(html, <<measureTableLayout(arg, ContentWidthPx)>>)
    /\ pc' = "measured"
    /\ UNCHANGED <<pending, styles, exports, saved, html, arg, result>>

NextMeasure == ConvertMeasured

SpecMeasure == InitMeasure /\ [][NextMeasure]_vars

RECURSIVE FirstFree(_, _, _)
\* The first grid column from col on that no cell of an earlier row reaches
\* down into.
FirstFree(taken, r, col) == IF <<r, col>> \in taken THEN FirstFree(taken, r, col + 1) ELSE col

RECURSIVE PlaceRow(_, _, _, _)
\* The cells of row r with the grid column each starts in, taken the grid
\* slots the rows above have covered.
PlaceRow(cells, r, col, taken) ==
    IF cells = <<>> THEN <<>>
    ELSE <<[cell |-> Head(cells), row |-> r, col |-> FirstFree(taken, r, col)]>>
         \o PlaceRow(Tail(cells), r, FirstFree(taken, r, col) + Head(cells).colSpan, taken)

\* The grid slots the placed cells cover.
Covered(placed) ==
    UNION {{<<placed[i].row + dr, placed[i].col + dc>> :
               dr \in 0..(placed[i].cell.rowSpan - 1), dc \in 0..(placed[i].cell.colSpan - 1)} :
           i \in 1..Len(placed)}

RECURSIVE PlaceRows(_, _, _)
\* The cells of the table with the grid column each occupies, row by row.
PlaceRows(rows, r, placed) ==
    IF r > Len(rows) THEN placed
    ELSE PlaceRows(rows, r + 1, placed \o PlaceRow(rows[r], r, 1, Covered(placed)))

\* The cells that occupy grid column c.
Occupying(table, c) ==
    SelectSeq(PlaceRows(table.rows, 1, <<>>),
              LAMBDA p : p.col <= c /\ c < p.col + p.cell.colSpan)

\* The width the claim gives grid column c: the explicit width of a cell of
\* the column, else the widest rendered width / colSpan of its cells, as
\* centimetres of the page.
ColumnWidthOf(table, c) ==
    LET cells == Occupying(table, c)
        widest == CHOOSE i \in 1..Len(cells) :
                      \A j \in 1..Len(cells) :
                          cells[i].cell.width * cells[j].cell.colSpan
                              >= cells[j].cell.width * cells[i].cell.colSpan
    IN IF \E i \in 1..Len(cells) : Has(cells[i].cell, "colwidth")
       THEN pxToCm(Num((CHOOSE p \in {cells[i] : i \in 1..Len(cells)} :
                            Has(p.cell, "colwidth")).cell.colwidth, 1))
       ELSE LayoutColumnWidth([pageWidthCm |-> PAGE_CONTENT_WIDTH_CM],
                Some(Num(cells[widest].cell.width,
                         cells[widest].cell.colSpan * ContentWidthPx)))

\* C25: the column widths of a table exported from the editor are, column by
\* column, the explicit width where the column has one and else the width
\* measured in the editor: the largest rendered cell width / colSpan among
\* the cells that occupy that grid column, rows shifted by a rowSpan
\* included.
C25_MeasuredWidthPerGridColumn ==
    pc = "measured" =>
        /\ Len(odtDoc.body) = 1
        /\ odtDoc.body[1].type = "table"
        /\ odtDoc.body[1].value.columnWidths
             = [c \in 1..MaxColumns(arg.rows) |-> ColumnWidthOf(arg, c)]

----------------------------------------------------------------------------
(* The styles a build declares against the styles it refers to.           *)

\* The ODF family of each table of the registry.
OdfFamily ==
    [spanStyles |-> "text", paragraphStyles |-> "paragraph", tableStyles |-> "table",
     tableColumnStyles |-> "table-column", tableCellStyles |-> "table-cell"]

\* The family of the style a rendered element refers to, by its tag.
TagFamily ==
    ("text:span" :> "text") @@ ("text:p" :> "paragraph") @@ ("table:table" :> "table")
    @@ ("table:table-column" :> "table-column") @@ ("table:table-row" :> "table-row")
    @@ ("table:table-cell" :> "table-cell")

\* text:style-name or table:style-name of a rendered element, "" without.
StyleRef(el) ==
    IF AttrOf(el, "text:style-name") # "" THEN AttrOf(el, "text:style-name")
    ELSE AttrOf(el, "table:style-name")

\* The styles the elements of a rendered body refer to, name and family.
ReferencedStyles(body) ==
    {[name |-> StyleRef(el), family |-> TagFamily[el.tag]] :
        el \in {x \in Range(BodyElements(body)) : x.tag \in DOMAIN TagFamily /\ StyleRef(x) # ""}}

\* The properties of a text style for a span: what its formatting
\* combination asks for.
TextProperties(span) ==
    <<"style:font-name=BodyFont">>
    \o (IF Combination(span).bold THEN <<"fo:font-weight=bold">> ELSE <<>>)
    \o (IF Combination(span).italic THEN <<"fo:font-style=italic">> ELSE <<>>)
    \o (IF Combination(span).underline
        THEN <<"style:text-underline-style=solid", "style:text-underline-type=single">>
        ELSE <<>>)
    \o (IF Combination(span).color # <<>> THEN <<"fo:color=" \o Str(Combination(span).color)>>
        ELSE <<>>)
    \o (IF Combination(span).fontSize # "" THEN <<"fo:font-size=" \o Combination(span).fontSize>>
        ELSE <<>>)

\* The properties the entry of a family is to be declared with, from the
\* key it is interned under.
KeyProperties(family, entry) ==
    CASE family = "spanStyles" -> TextProperties(entry.span)
      [] family = "paragraphStyles" ->
            [k \in 1..Len(entry.key) |->
                ParagraphAttrName(entry.key[k][1]) \o "=" \o entry.key[k][2]]
      [] family = "tableColumnStyles" -> <<"style:column-width=" \o entry.key>>
      [] family = "tableCellStyles" ->
            <<"fo:border=0.75pt solid #c5ccd6", "fo:padding=0.20cm",
              "fo:background-color=" \o entry.key>>
      [] family = "tableStyles" ->
            <<"table:align=left", "table:border-model=collapsing">>
            \o (IF Has(entry, "widthAttr") /\ entry.key = "abs:" \o entry.widthAttr
                THEN <<"style:width=" \o entry.widthAttr>> ELSE <<>>)
            \o (IF Has(entry, "relWidthAttr") /\ entry.key = "rel:" \o entry.relWidthAttr
                THEN <<"style:rel-width=" \o entry.relWidthAttr>> ELSE <<>>)

\* The declarations of a content.xml with this name and family.
DeclaredAs(xml, name, family) ==
    SelectSeq(xml.automaticStyles, LAMBDA d : d.name = name /\ d.family = family)

\* C26: at the end of a build every name the StyleRegistry returned is
\* declared exactly once in the automatic styles, in the family it was
\* asked for and with the properties of its key: the entries of the
\* registry, the names logged for the spans and the names the body refers
\* to; and no two declarations of one family share a name, the base styles
\* P, T, Table, TableColumn, TableRow and TableCell included.
C26_ReturnedNamesDeclaredOnce ==
    exports # <<>> =>
        /\ \A family \in DOMAIN OdfFamily :
               \A k \in 1..Len(styles[family]) :
                   DeclaredAs(exports[Len(exports)].xml, styles[family][k].name,
                              OdfFamily[family])
                       = <<StyleDecl(styles[family][k].name, OdfFamily[family],
                                     KeyProperties(family, styles[family][k]))>>
        /\ \A c \in 1..Len(pending) :
               pending[c].doc = exports[Len(exports)].doc =>
                   \A i \in 1..Len(pending[c].log) :
                       (Has(pending[c].log[i], "name")
                        /\ pending[c].log[i].name \notin PresetNames)
                       => DeclaredAs(exports[Len(exports)].xml, pending[c].log[i].name, "text")
                              = <<StyleDecl(pending[c].log[i].name, "text",
                                            TextProperties(pending[c].log[i].span))>>
        /\ \A ref \in ReferencedStyles(exports[Len(exports)].xml.body) :
               ref.name \notin PresetNames
               => Len(DeclaredAs(exports[Len(exports)].xml, ref.name, ref.family)) = 1
        /\ \A i, j \in 1..Len(exports[Len(exports)].xml.automaticStyles) :
               (i # j /\ exports[Len(exports)].xml.automaticStyles[i].family
                             = exports[Len(exports)].xml.automaticStyles[j].family)
               => exports[Len(exports)].xml.automaticStyles[i].name
                      # exports[Len(exports)].xml.automaticStyles[j].name

\* C26 witness: the build of a table with column widths, a coloured cell
\* and formatted spans, a paragraph with a margin and a centred paragraph
\* has ended: the registry holds styles of all five families.
C26_AllFamiliesDeclared ==
    /\ exports # <<>>
    /\ exports[Len(exports)].doc = OtherDoc
    /\ \E c \in 1..Len(pending) : pending[c].doc = OtherDoc
    /\ \A family \in DOMAIN OdfFamily : styles[family] # <<>>
    /\ Len(styles.spanStyles) >= 2

----------------------------------------------------------------------------
(* Import and re-export of formatted text: a text:p with one text:span     *)
(* whose resolved text properties are any combination of weight, style,    *)
(* underline, colour and size.                                             *)

\* The values each text property takes; <<>> stands for a property that is
\* not there.
TextPropertyValues ==
    [weight : {<<>>, Chars("bold"), Chars("normal")},
     style : {<<>>, Chars("italic")},
     underline : {<<>>, Chars("solid"), Chars("none")},
     color : {<<>>, Chars("#ff0000")},
     size : {<<>>, Chars("14pt"), Chars("10.5pt")}]

\* The resolved text properties of a combination.
TextPropertiesOf(v) ==
    SelectSeq(<<<<"fo:font-weight", v.weight>>, <<"fo:font-style", v.style>>,
                <<"style:text-underline-style", v.underline>>, <<"fo:color", v.color>>,
                <<"fo:font-size", v.size>>>>,
              LAMBDA e : e[2] # <<>>)

\* <text:p><text:span>x</text:span></text:p>
FormattedParagraph(v) ==
    OdtElement("text:p", EmptyObj, <<OdtSpan("x", TextPropertiesOf(v))>>)

FormattedDocuments == {OdtDocument(<<FormattedParagraph(v)>>) : v \in TextPropertyValues}

InitFormatting ==
    /\ arg \in FormattedDocuments
    /\ pc = "loaded"
    /\ result = <<>>
    /\ html = <<>>
    /\ odtDoc = NoDoc
    /\ pending = <<>>
    /\ styles = NewStyleRegistry
    /\ exports = <<>>
    /\ saved = <<>>

SpecFormatting == InitFormatting /\ [][NextImport]_vars

\* The span the formatting of a combination stands for: bold, italic and
\* underline where the property turns them on, the colour and the size as
\* they are.
FormattedSpan(v) ==
    [text |-> <<"x">>]
    @@ Opt(v.weight = Chars("bold"), "bold", TRUE)
    @@ Opt(v.style = Chars("italic"), "italic", TRUE)
    @@ Opt(v.underline \notin {<<>>, Chars("none")}, "underline", TRUE)
    @@ Opt(v.color # <<>>, "color", v.color)
    @@ Opt(v.size # <<>>, "fontSize", Str(v.size))

\* The span as the export reads it: a flag that is false counts as not set.
SpanValues(span) ==
    [f \in {g \in DOMAIN span : g \in {"bold", "italic", "underline"} => span[g]} |-> span[f]]

\* C27: a text:span whose resolved text properties make it bold, italic,
\* underlined, coloured with a 6-digit hex colour or sized in pt comes back
\* from odtJsonToHtml followed by convertHtmlToOdtDoc as a span with the same
\* bold, italic, underline, color and fontSize.
C27_FormattingSurvivesRoundTrip ==
    pc = "exported" =>
        \A v \in TextPropertyValues :
            arg = OdtDocument(<<FormattedParagraph(v)>>) =>
                /\ Len(odtDoc.body) = 1
                /\ odtDoc.body[1].type = "paragraph"
                /\ Len(odtDoc.body[1].value.spans) = 1
                /\ SpanValues(odtDoc.body[1].value.spans[1]) = FormattedSpan(v)

----------------------------------------------------------------------------
(* The width of a table declared as a percentage.                          *)

\* The unit of a declared width is none of px, pt, in, mm, cm and it has
\* one: its last character is no digit and no point.
OtherUnit(value) ==
    /\ Trim(value) # <<>>
    /\ ~IsDigitOrDot(Trim(value)[Len(Trim(value))])
    /\ \A unit \in {<<"p", "x">>, <<"p", "t">>, <<"i", "n">>, <<"m", "m">>, <<"c", "m">>} :
           ~EndsWith(ToLowerCase(Trim(value)), unit)

\* C28: a table whose only declared width is the percentage 50% is exported,
\* without an editor to measure it in, with widthPct 50 and without widthCm;
\* cssLengthToCm gives undefined for its width, whose unit is none of px,
\* pt, in, mm and cm.
C28_PercentWidthOnly ==
    (pc = "converted" /\ arg = <<>> /\ html # <<>>
     /\ \A k \in 1..Len(html) : html[k] = eTablePct)
    => /\ Len(odtDoc.body) = Len(html)
       /\ \A k \in 1..Len(html) :
             /\ OtherUnit(GetAttribute(html[k], "width"))
             /\ cssLengthToCm(GetAttribute(html[k], "width")) = Undefined
             /\ odtDoc.body[k].type = "table"
             /\ odtDoc.body[k].value.widthPct = Num(50, 1)
             /\ ~Has(odtDoc.body[k].value, "widthCm")

----------------------------------------------------------------------------
(* The pairing of the tables of the HTML with the measurements of the      *)
(* editor's tables (part_004 336-357, 536-555).  The editor root shows the *)
(* document the HTML was taken from, so its tables are the tables of the   *)
(* HTML, nested ones included, in document order.                          *)

\* <table><tbody><tr><td>text</td></tr></tbody></table>
OneCellTable(text) ==
    Tag("TABLE", <<Tag("TBODY", <<Tag("TR", <<Tag("TD", <<Text(<<text>>)>>)>>)>>)>>)

\* A table whose one cell holds text and a table.
eNestedTable ==
    Tag("TABLE", <<Tag("TBODY", <<Tag("TR",
        <<Tag("TD", <<Text(<<"o">>), OneCellTable("n")>>)>>)>>)>>)

\* <section><table>...</table></section>
eWrappedTable == Tag("SECTION", <<OneCellTable("w")>>)

PairingElements == {OneCellTable("a"), eNestedTable, eWrappedTable, eRuns}

MaxPaired == 3

PairingBodies == UNION {[1..n -> PairingElements] : n \in 0..MaxPaired}

RECURSIVE TablesBelow(_, _)
\* editorRoot.querySelectorAll('table'): for each table below the nodes, in
\* document order, whether it lies inside another table.
TablesBelow(nodes, inTable) ==
    IF nodes = <<>> THEN <<>>
    ELSE (IF ~IsElement(Head(nodes)) THEN <<>>
          ELSE IF Head(nodes).tagName = "TABLE"
          THEN <<inTable>> \o TablesBelow(Head(nodes).childNodes, TRUE)
          ELSE TablesBelow(Head(nodes).childNodes, inTable))
         \o TablesBelow(Tail(nodes), inTable)

\* The measurements of the tables of the editor root: the i-th table is
\* i tenths of the content width wide.
MeasuredTables(nodes) ==
    [i \in 1..Len(TablesBelow(nodes, FALSE)) |->
        [tableRatio |-> Num(i, 10), columnRatios |-> <<>>]]

\* convertHtmlToOdtDoc(html, { editorRoot }) with the editor showing the
\* document, or without an editor root.
InitPairing ==
    /\ html \in PairingBodies
    /\ arg \in {MeasuredTables(html), <<>>}
    /\ pc = "parsed"
    /\ odtDoc = NoDoc
    /\ pending = <<>>
    /\ styles = NewStyleRegistry
    /\ exports = <<>>
    /\ saved = <<>>
    /\ result = <<>>

SpecPairing == InitPairing /\ [][NextHtml]_vars

\* The places, in the editor's list of tables, of the tables that are not
\* inside another table: the tables that become table blocks.
BlockTables(nodes) ==
    LET tables == TablesBelow(nodes, FALSE)
        RECURSIVE From(_)
        From(i) == IF i > Len(tables) THEN <<>>
                   ELSE IF tables[i] THEN From(i + 1)
                   ELSE <<i>> \o From(i + 1)
    IN From(1)

\* The table blocks of a document, in body order.
TableBlocks(doc) == SelectSeq(doc.body, LAMBDA b : b.type = "table")

\* C29: the k-th table block is sized with the measurement of the same table
\* in the editor, also when a table lies in a cell of an earlier table; a
\* table without a measurement gets no width.
C29_MeasurementOfSameTable ==
    pc = "converted" =>
        /\ Len(TableBlocks(odtDoc)) = Len(BlockTables(html))
        /\ \A k \in 1..Len(TableBlocks(odtDoc)) :
              IF arg = <<>>
              THEN DOMAIN TableBlocks(odtDoc)[k].value \cap {"widthPct", "widthCm"} = {}
              ELSE /\ TableBlocks(odtDoc)[k].value.widthPct
                        = Num(1000 * BlockTables(html)[k], 100)
                   /\ TableBlocks(odtDoc)[k].value.widthCm
                        = ToFixedChars(PAGE_CONTENT_WIDTH_CM * BlockTables(html)[k], 10, 4) \o CM

----------------------------------------------------------------------------
(* The text of the HTML against the text of the converted document.        *)

\* <section>t<p>a</p>u</section>
eBareInWrapper == Tag("SECTION", <<Text(<<"t">>), Tag("P", <<Text(<<"a">>)>>), Text(<<"u">>)>>)

\* A table whose one cell holds the given nodes.
CellTable(childNodes) ==
    Tag("TABLE", <<Tag("TBODY", <<Tag("TR", <<Tag("TD", childNodes)>>)>>)>>)

\* <td><p>x</p>y</td>
eCellBareText == CellTable(<<Tag("P", <<Text(<<"x">>)>>), Text(<<"y">>)>>)

\* <td><p>c</p><ul><li>l</li></ul></td>
eCellList ==
    CellTable(<<Tag("P", <<Text(<<"c">>)>>), Tag("UL", <<Tag("LI", <<Text(<<"l">>)>>)>>)>>)

\* <td><p>m</p><table>...n...</table></td>
eCellNested == CellTable(<<Tag("P", <<Text(<<"m">>)>>), OneCellTable("n")>>)

\* <div>d<span>e</span><p>f</p></div>
eDivText ==
    Tag("DIV", <<Text(<<"d">>), Tag("SPAN", <<Text(<<"e">>)>>), Tag("P", <<Text(<<"f">>)>>)>>)

\* <blockquote>q<b>r</b></blockquote>
eQuote == Tag("BLOCKQUOTE", <<Text(<<"q">>), Tag("B", <<Text(<<"r">>)>>)>>)

TextElements ==
    {eSection, eTable, eBareInWrapper, eCellBareText, eCellList, eCellNested, eDivText, eQuote}

TextBodies == UNION {[1..n -> TextElements] : n \in 0..MaxNodes}

InitText ==
    /\ html \in TextBodies
    /\ arg = <<>>
    /\ pc = "parsed"
    /\ odtDoc = NoDoc
    /\ pending = <<>>
    /\ styles = NewStyleRegistry
    /\ exports = <<>>
    /\ saved = <<>>
    /\ result = <<>>

SpecText == InitText /\ [][NextHtml]_vars

\* The letters of the spans of the document, block by block, cell by cell.
SpanLetters(doc) == LettersOf(Concat([n \in 1..Len(doc.body) |-> BlockText(doc.body[n])]))

\* C30: the conversion loses no text: the text nodes of the parsed body, one
\* letter each, are the letters of the spans of the document it returns, each
\* once and in document order, also for text directly inside an unrecognized
\* wrapper, for a cell that holds paragraph-like children beside bare text, a
\* list or a nested table, and for paragraph-like elements other than <p>.
C30_NoTextLost ==
    pc = "converted" => SpanLetters(odtDoc) = LettersOf(DomText(html))

====
